---- MODULE Spec2Model ----
(***************************************************************************)
(* The Finding Disposition Engine of Agent-Hubble                          *)
(* (scripts/deployment/lambda/false_positive_analysis.py): the analyzers,  *)
(* the classifier, the combiner, analyze_finding and lambda_handler.       *)
(*                                                                         *)
(* Text is a sequence of one-character strings, so that substring tests,   *)
(* lower-casing, joining and splitting are computed as Python computes     *)
(* them.  Scores are exact rationals [num, den] in lowest terms.           *)
(***************************************************************************)
EXTENDS Integers, Sequences, FiniteSets, TLC

VARIABLES analyzer, pc, finding, options, environment_analysis,
          ml_classification, pattern_analysis, business_context,
          temporal_analysis, classification, invoked, result, response,
          history, lambda_event, fault, pending, args

vars == <<analyzer, pc, finding, options, environment_analysis,
          ml_classification, pattern_analysis, business_context,
          temporal_analysis, classification, invoked, result, response,
          history, lambda_event, fault, pending, args>>

----------------------------------------------------------------------------
(* Bounds *)

\* number of analyze_finding calls made on one engine instance in SpecRepeat
MaxRequests == 2

\* largest number of similar historical findings in SpecFunctions
MaxHistory == 12

----------------------------------------------------------------------------
(* Python values *)

None == [none |-> TRUE]

\* d.get(k, default)
Get(d, k, default) == IF k \in DOMAIN d THEN d[k] ELSE default

Min(a, b) == IF a < b THEN a ELSE b

RECURSIVE GCD(_, _)
GCD(a, b) == IF b = 0 THEN a ELSE GCD(b, a % b)

\* the fraction n/d (n >= 0, d > 0) in lowest terms
Rat(n, d) == LET g == GCD(n, d) IN [num |-> n \div g, den |-> d \div g]

RAdd(a, b) == Rat(a.num * b.den + b.num * a.den, a.den * b.den)
RMul(a, b) == Rat(a.num * b.num, a.den * b.den)
RDivInt(a, k) == Rat(a.num, a.den * k)
RGt(a, b) == a.num * b.den > b.num * a.den
RLt(a, b) == RGt(b, a)
RLe(a, b) == ~RGt(a, b)
RMax(a, b) == IF RGt(b, a) THEN b ELSE a
RMin(a, b) == IF RLt(b, a) THEN b ELSE a

RECURSIVE RSum(_)
RSum(s) == IF s = <<>> THEN Rat(0, 1) ELSE RAdd(Head(s), RSum(Tail(s)))

----------------------------------------------------------------------------
(* Text *)

LowerOf ==
  ("A" :> "a") @@ ("B" :> "b") @@ ("C" :> "c") @@ ("D" :> "d") @@
  ("E" :> "e") @@ ("F" :> "f") @@ ("G" :> "g") @@ ("H" :> "h") @@
  ("I" :> "i") @@ ("J" :> "j") @@ ("K" :> "k") @@ ("L" :> "l") @@
  ("M" :> "m") @@ ("N" :> "n") @@ ("O" :> "o") @@ ("P" :> "p") @@
  ("Q" :> "q") @@ ("R" :> "r") @@ ("S" :> "s") @@ ("T" :> "t") @@
  ("U" :> "u") @@ ("V" :> "v") @@ ("W" :> "w") @@ ("X" :> "x") @@
  ("Y" :> "y") @@ ("Z" :> "z")

\* s.lower()
Lower(s) == [i \in 1..Len(s) |-> IF s[i] \in DOMAIN LowerOf THEN LowerOf[s[i]] ELSE s[i]]

\* t in s
Contains(s, t) == \E i \in 0..(Len(s) - Len(t)) : SubSeq(s, i + 1, i + Len(t)) = t

\* sep.join(parts)
RECURSIVE Join(_, _)
Join(parts, sep) ==
  IF parts = <<>> THEN <<>>
  ELSE IF Len(parts) = 1 THEN parts[1]
  ELSE parts[1] \o sep \o Join(Tail(parts), sep)

\* s.replace(c, '')
Remove(s, c) == SelectSeq(s, LAMBDA ch : ch # c)

\* s.split(c)
RECURSIVE Split(_, _)
Split(s, c) ==
  IF \A i \in 1..Len(s) : s[i] # c THEN <<s>>
  ELSE LET k == CHOOSE i \in 1..Len(s) : s[i] = c /\ \A j \in 1..(i - 1) : s[j] # c
       IN <<SubSeq(s, 1, k - 1)>> \o Split(SubSeq(s, k + 1, Len(s)), c)

\* a dict's values(), in insertion order; a dict is a sequence of <<key, value>>
Values(tags) == [i \in 1..Len(tags) |-> tags[i][2]]

\* tags.get(key, default)
TagGet(tags, key, default) ==
  IF \E i \in 1..Len(tags) : tags[i][1] = key
  THEN tags[CHOOSE i \in 1..Len(tags) : tags[i][1] = key][2]
  ELSE default

----------------------------------------------------------------------------
(* Findings and dictionaries                                               *)
(*                                                                         *)
(* A dict with string keys is a record whose domain is the set of keys     *)
(* present; a tag dict is a sequence of <<key, value>> in insertion order. *)

\* {}
EmptyDict == [k \in {} |-> None]

\* the keys of a finding and of a resource, in insertion order, with their text
FindingKeys == <<"Id", "GeneratorId", "AwsAccountId", "Severity", "Title", "Resources">>
ResourceKeys == <<"Id", "Tags">>
KeyText ==
  [Id |-> <<"I","d">>, GeneratorId |-> <<"G","e","n","e","r","a","t","o","r","I","d">>,
   AwsAccountId |-> <<"A","w","s","A","c","c","o","u","n","t","I","d">>, Severity |-> <<"S","e","v","e","r","i","t","y">>,
   Title |-> <<"T","i","t","l","e">>, Resources |-> <<"R","e","s","o","u","r","c","e","s">>, Tags |-> <<"T","a","g","s">>,
   Label |-> <<"L","a","b","e","l">>]

Quote(s) == <<"'">> \o s \o <<"'">>

\* str() of a tag dict
StrTags(tags) ==
  <<"{">> \o Join([i \in 1..Len(tags) |->
                    Quote(tags[i][1]) \o <<":"," ">> \o Quote(tags[i][2])], <<","," ">>)
         \o <<"}">>

\* str() of a resource dict
StrResource(r) ==
  LET present == SelectSeq(ResourceKeys, LAMBDA k : k \in DOMAIN r)
      item(k) == Quote(KeyText[k]) \o <<":"," ">> \o
                 (IF k = "Tags" THEN StrTags(r[k]) ELSE Quote(r[k]))
  IN <<"{">> \o Join([i \in 1..Len(present) |-> item(present[i])], <<","," ">>) \o <<"}">>

\* str(finding)
StrFinding(f) ==
  LET present == SelectSeq(FindingKeys, LAMBDA k : k \in DOMAIN f)
      value(k) ==
        IF k = "Severity"
        THEN <<"{">> \o (IF "Label" \in DOMAIN f[k]
                         THEN Quote(KeyText["Label"]) \o <<":"," ">> \o Quote(f[k]["Label"])
                         ELSE <<>>) \o <<"}">>
        ELSE IF k = "Resources"
        THEN <<"[">> \o Join([i \in 1..Len(f[k]) |-> StrResource(f[k][i])], <<","," ">>) \o <<"]">>
        ELSE Quote(f[k])
      item(k) == Quote(KeyText[k]) \o <<":"," ">> \o value(k)
  IN <<"{">> \o Join([i \in 1..Len(present) |-> item(present[i])], <<","," ">>) \o <<"}">>

----------------------------------------------------------------------------
(* EnvironmentAnalyzer *)

\* EnvironmentAnalyzer_init with a keyword set of its own for staging
EnvironmentAnalyzer_init_with_staging ==
  [environment_patterns |->
     << [env |-> "staging", patterns |-> <<<<"s","t","a","g","i","n","g">>>>],
        [env |-> "test",
         patterns |-> <<<<"t","e","s","t">>, <<"d","e","v">>, <<"q","a">>, <<"s","a","n","d","b","o","x">>, <<"d","e","m","o">>>>],
        [env |-> "production",
         patterns |-> <<<<"p","r","o","d">>, <<"p","r","o","d","u","c","t","i","o","n">>, <<"l","i","v","e">>, <<"m","a","i","n">>>>],
        [env |-> "development",
         patterns |-> <<<<"d","e","v">>, <<"d","e","v","e","l","o","p","m","e","n","t">>, <<"f","e","a","t","u","r","e">>, <<"b","r","a","n","c","h">>>>] >>]

\* the attributes set by EnvironmentAnalyzer.__init__; the dict is ordered
EnvironmentAnalyzer_init ==
  [environment_patterns |->
     << [env |-> "test",
         patterns |-> <<<<"t","e","s","t">>, <<"d","e","v">>, <<"s","t","a","g","i","n","g">>, <<"q","a">>, <<"s","a","n","d","b","o","x">>, <<"d","e","m","o">>>>],
        [env |-> "production",
         patterns |-> <<<<"p","r","o","d">>, <<"p","r","o","d","u","c","t","i","o","n">>, <<"l","i","v","e">>, <<"m","a","i","n">>>>],
        [env |-> "development",
         patterns |-> <<<<"d","e","v">>, <<"d","e","v","e","l","o","p","m","e","n","t">>, <<"f","e","a","t","u","r","e">>, <<"b","r","a","n","c","h">>>>] >>]

\* detect_environment with the production keywords tried before the test ones
detect_environment_production_first(self, resource_arn, tags) ==
  LET text_to_analyze == Lower(resource_arn \o <<" ">> \o Join(Values(tags), <<" ">>))
      table == self.environment_patterns
      order == <<2, 1, 3>>
      hits == {k \in 1..Len(order) :
                 \E j \in 1..Len(table[order[k]].patterns) :
                    Contains(text_to_analyze, table[order[k]].patterns[j])}
  IN IF hits = {} THEN "unknown"
     ELSE table[order[CHOOSE k \in hits : \A l \in hits : k <= l]].env

detect_environment(self, resource_arn, tags) ==
  LET text_to_analyze == Lower(resource_arn \o <<" ">> \o Join(Values(tags), <<" ">>))
      table == self.environment_patterns
      hits == {i \in 1..Len(table) :
                 \E j \in 1..Len(table[i].patterns) :
                    Contains(text_to_analyze, table[i].patterns[j])}
  IN IF hits = {} THEN "unknown"
     ELSE table[CHOOSE i \in hits : \A k \in hits : i <= k].env

\* assess_environment_risk with LOW for an environment it does not list
assess_environment_risk_default_low(environment) ==
  CASE environment = "production" -> "HIGH"
    [] environment = "staging" -> "MEDIUM"
    [] OTHER -> "LOW"

assess_environment_risk(environment) ==
  CASE environment = "production" -> "HIGH"
    [] environment = "staging" -> "MEDIUM"
    [] environment = "test" -> "LOW"
    [] environment = "development" -> "LOW"
    [] environment = "unknown" -> "MEDIUM"
    [] OTHER -> "MEDIUM"

analyze_environment_context(self, f) ==
  LET resources == Get(f, "Resources", <<EmptyDict>>)
  IN IF Len(resources) = 0
     THEN [environment |-> "unknown", risk_level |-> "MEDIUM",
           is_production |-> FALSE, requires_immediate_action |-> FALSE]
     ELSE LET resource == resources[1]
              resource_arn == Get(resource, "Id", <<>>)
              tags == Get(resource, "Tags", <<>>)
              environment == detect_environment(self, resource_arn, tags)
              risk_level == assess_environment_risk(environment)
          IN [environment |-> environment, risk_level |-> risk_level,
              is_production |-> environment = "production",
              requires_immediate_action |-> environment = "production"]

----------------------------------------------------------------------------
(* BusinessContextAnalyzer *)

load_critical_resources ==
  << <<"a","r","n",":","a","w","s",":","i","a","m",":",":","*",":","r","o","o","t">>,
     <<"a","r","n",":","a","w","s",":","s","3",":",":",":","p","r","o","d","u","c","t","i","o","n","-","d","a","t","a","-","*">>,
     <<"a","r","n",":","a","w","s",":","r","d","s",":","*",":","*",":","d","b",":","p","r","o","d","u","c","t","i","o","n","-","*">> >>

load_business_exceptions ==
  << <<"I","A","M",".","1",":","d","e","v","e","l","o","p","m","e","n","t",":","t","e","s","t","-","a","c","c","o","u","n","t">>,
     <<"S","3",".","1",":","s","t","a","g","i","n","g",":","d","e","m","o","-","b","u","c","k","e","t">>,
     <<"E","C","2",".","1",":","d","e","v",":","t","e","s","t","-","i","n","s","t","a","n","c","e">> >>

BusinessContextAnalyzer_init ==
  [critical_resources |-> load_critical_resources,
   business_exceptions |-> load_business_exceptions]

\* matches_pattern with '*' standing for any characters: every piece of the
\* pattern between wildcards occurs in the identifier
matches_pattern_wildcard(resource_id, pattern) ==
  LET pieces == Split(pattern, "*")
  IN \A i \in 1..Len(pieces) : Contains(resource_id, pieces[i])

matches_pattern(resource_id, pattern) == Contains(resource_id, Remove(pattern, "*"))

is_critical_resource(self, resource_id) ==
  \E i \in 1..Len(self.critical_resources) :
     matches_pattern(resource_id, self.critical_resources[i])

generate_finding_key(f) ==
  LET generator_id == Get(f, "GeneratorId", <<>>)
      account_id == Get(f, "AwsAccountId", <<>>)
      resources == Get(f, "Resources", <<EmptyDict>>)
      parts == Split(generator_id, "/")
      service_control == IF Len(parts) >= 2 THEN parts[Len(parts)] ELSE generator_id
      env == IF Len(resources) > 0
             THEN TagGet(Get(resources[1], "Tags", <<>>), <<"E","n","v","i","r","o","n","m","e","n","t">>, <<"u","n","k","n","o","w","n">>)
             ELSE <<"u","n","k","n","o","w","n">>
  IN service_control \o <<":">> \o env \o <<":">> \o account_id

has_business_exception(self, f) ==
  \E i \in 1..Len(self.business_exceptions) :
     self.business_exceptions[i] = generate_finding_key(f)

\* assess_business_impact with the exception tested before the critical
\* resource
assess_business_impact_exception_first(f, is_critical, has_exception) ==
  IF has_exception THEN "LOW"
  ELSE IF is_critical THEN "HIGH"
  ELSE LET severity == Get(Get(f, "Severity", EmptyDict), "Label", <<"M","E","D","I","U","M">>)
       IN IF severity \in {<<"H","I","G","H">>, <<"C","R","I","T","I","C","A","L">>} THEN "MEDIUM" ELSE "LOW"

assess_business_impact(f, is_critical, has_exception) ==
  IF is_critical THEN "HIGH"
  ELSE IF has_exception THEN "LOW"
  ELSE LET severity == Get(Get(f, "Severity", EmptyDict), "Label", <<"M","E","D","I","U","M">>)
       IN IF severity \in {<<"H","I","G","H">>, <<"C","R","I","T","I","C","A","L">>} THEN "MEDIUM" ELSE "LOW"

analyze_business_context(self, f) ==
  LET resources == Get(f, "Resources", <<EmptyDict>>)
  IN IF Len(resources) = 0
     THEN [is_critical_resource |-> FALSE, has_business_exception |-> FALSE,
           business_impact |-> "UNKNOWN", requires_business_review |-> FALSE]
     ELSE LET resource_id == Get(resources[1], "Id", <<>>)
              is_critical == is_critical_resource(self, resource_id)
              has_exception == has_business_exception(self, f)
              business_impact == assess_business_impact(f, is_critical, has_exception)
          IN [is_critical_resource |-> is_critical,
              has_business_exception |-> has_exception,
              business_impact |-> business_impact,
              requires_business_review |-> is_critical \/ has_exception]

\* business_analyzer_after for an analyzer that adds the key it looked up to
\* its exception list
business_analyzer_after_learning(self, f) ==
  [self EXCEPT !.business_exceptions = Append(@, generate_finding_key(f))]

\* analyze_business_context and the methods it calls assign no attribute of
\* self: the analyzer's attributes after the call
business_analyzer_after(self, f) == self

----------------------------------------------------------------------------
(* FalsePositiveFeatureExtractor *)

\* the score of a tier; the extractor analyses with its own EnvironmentAnalyzer()
extract_environment_score(f) ==
  LET context == analyze_environment_context(EnvironmentAnalyzer_init, f)
  IN IF context.environment \in {"test", "development", "staging"} THEN Rat(9, 10)
     ELSE IF context.environment = "production" THEN Rat(1, 10)
     ELSE Rat(1, 2)

extract_historical_pattern_score(f) == Rat(1, 2)

\* extract_business_exception_score reading the business context of the
\* request in progress in place of analysing the finding itself
extract_business_exception_score_shared(f) ==
  IF business_context = None THEN Rat(1, 2)
  ELSE IF business_context.has_business_exception THEN Rat(4, 5)
  ELSE IF business_context.is_critical_resource THEN Rat(1, 5)
  ELSE Rat(1, 2)

\* analysed with the extractor's own BusinessContextAnalyzer()
extract_business_exception_score(f) ==
  LET context == analyze_business_context(BusinessContextAnalyzer_init, f)
  IN IF context.has_business_exception THEN Rat(4, 5)
     ELSE IF context.is_critical_resource THEN Rat(1, 5)
     ELSE Rat(1, 2)

extract_temporal_pattern_score(f) == Rat(1, 2)

extract_severity_mismatch_score(f) ==
  LET severity == Get(Get(f, "Severity", EmptyDict), "Label", <<"M","E","D","I","U","M">>)
      text == Lower(StrFinding(f))
  IN IF severity = <<"C","R","I","T","I","C","A","L">> /\ Contains(text, <<"t","e","s","t">>) THEN Rat(4, 5)
     ELSE IF severity = <<"L","O","W">> /\ Contains(text, <<"p","r","o","d","u","c","t","i","o","n">>) THEN Rat(3, 10)
     ELSE Rat(1, 2)

extract_features(f) ==
  << extract_environment_score(f),
     extract_historical_pattern_score(f),
     extract_business_exception_score(f),
     extract_temporal_pattern_score(f),
     extract_severity_mismatch_score(f) >>

----------------------------------------------------------------------------
(* MLClassifier *)

\* weights with every feature counted alike
weights_uniform == <<Rat(1, 5), Rat(1, 5), Rat(1, 5), Rat(1, 5), Rat(1, 5)>>

\* Environment, Historical, Business, Temporal, Severity
weights == <<Rat(3, 10), Rat(1, 4), Rat(1, 5), Rat(3, 20), Rat(1, 10)>>

simple_classification(features) ==
  LET n == Min(Len(features), Len(weights))
      weighted_sum == RSum([i \in 1..n |-> RMul(features[i], weights[i])])
  IN RMin(RMax(weighted_sum, Rat(0, 1)), Rat(1, 1))

generate_reasoning(f, features, probability) ==
  LET reasoning_parts ==
        (IF RGt(features[1], Rat(4, 5)) THEN <<<<"F","i","n","d","i","n","g"," ","i","s"," ","i","n"," ","n","o","n","-","p","r","o","d","u","c","t","i","o","n"," ","e","n","v","i","r","o","n","m","e","n","t">>>> ELSE <<>>)
        \o (IF RGt(features[2], Rat(7, 10)) THEN <<<<"S","i","m","i","l","a","r"," ","f","i","n","d","i","n","g","s"," ","w","e","r","e"," ","p","r","e","v","i","o","u","s","l","y"," ","f","a","l","s","e"," ","p","o","s","i","t","i","v","e","s">>>> ELSE <<>>)
        \o (IF RGt(features[3], Rat(3, 5)) THEN <<<<"F","i","n","d","i","n","g"," ","m","a","t","c","h","e","s"," ","k","n","o","w","n"," ","b","u","s","i","n","e","s","s"," ","e","x","c","e","p","t","i","o","n"," ","p","a","t","t","e","r","n">>>> ELSE <<>>)
        \o (IF RGt(features[4], Rat(7, 10)) THEN <<<<"F","i","n","d","i","n","g"," ","a","p","p","e","a","r","s"," ","t","o"," ","b","e"," ","t","e","m","p","o","r","a","r","y">>>> ELSE <<>>)
  IN IF reasoning_parts # <<>> THEN Join(reasoning_parts, <<";"," ">>)
     ELSE <<"N","o"," ","s","p","e","c","i","f","i","c"," ","i","n","d","i","c","a","t","o","r","s">>

\* lines 254-262: the classification of a finding with the given features
classify_features(f, features) ==
  LET probability == simple_classification(features)
  IN [is_false_positive |-> RGt(probability, Rat(7, 10)),
      confidence |-> probability,
      reasoning |-> generate_reasoning(f, features, probability)]

classify_finding(f) == classify_features(f, extract_features(f))

\* classify_finding when an exception is raised inside its try block: it is
\* logged and None is returned
classify_finding_guarded(f, raised) ==
  IF raised THEN None ELSE classify_finding(f)

----------------------------------------------------------------------------
(* PatternRecognitionEngine *)

\* find_similar_findings with a history of twelve suppressed findings
find_similar_findings_suppressed(f) == [i \in 1..12 |-> [WorkflowState |-> "SUPPRESSED"]]

find_similar_findings(f) == <<>>

\* analyze_outcomes counting the findings that are not suppressed
analyze_outcomes_unsuppressed(similar_findings) ==
  IF Len(similar_findings) = 0 THEN [false_positive_rate |-> Rat(1, 2)]
  ELSE LET false_positive_count ==
             Len(SelectSeq(similar_findings,
                           LAMBDA s : Get(s, "WorkflowState", "") # "SUPPRESSED"))
           total_count == Len(similar_findings)
       IN [false_positive_rate |-> IF total_count > 0
                                   THEN Rat(false_positive_count, total_count)
                                   ELSE Rat(1, 2),
           total_findings |-> total_count,
           false_positive_count |-> false_positive_count]

\* a similar finding is a dict; only its WorkflowState is read
analyze_outcomes(similar_findings) ==
  IF Len(similar_findings) = 0 THEN [false_positive_rate |-> Rat(1, 2)]
  ELSE LET false_positive_count ==
             Len(SelectSeq(similar_findings,
                           LAMBDA s : Get(s, "WorkflowState", "") = "SUPPRESSED"))
           total_count == Len(similar_findings)
       IN [false_positive_rate |-> IF total_count > 0
                                   THEN Rat(false_positive_count, total_count)
                                   ELSE Rat(1, 2),
           total_findings |-> total_count,
           false_positive_count |-> false_positive_count]

\* calculate_pattern_probability without the discount for six to ten findings
calculate_pattern_probability_undiscounted(outcome_analysis) ==
  LET false_positive_rate == Get(outcome_analysis, "false_positive_rate", Rat(1, 2))
      total_findings == Get(outcome_analysis, "total_findings", 0)
  IN IF total_findings > 5 THEN false_positive_rate ELSE Rat(1, 2)

calculate_pattern_probability(outcome_analysis) ==
  LET false_positive_rate == Get(outcome_analysis, "false_positive_rate", Rat(1, 2))
      total_findings == Get(outcome_analysis, "total_findings", 0)
  IN IF total_findings > 10 THEN false_positive_rate
     ELSE IF total_findings > 5 THEN RMul(false_positive_rate, Rat(4, 5))
     ELSE Rat(1, 2)

\* the decimal digits of a natural number
RECURSIVE Digits(_)
Digits(n) ==
  LET d == <<"0", "1", "2", "3", "4", "5", "6", "7", "8", "9">>
  IN IF n < 10 THEN <<d[n + 1]>> ELSE Digits(n \div 10) \o <<d[(n % 10) + 1]>>

\* f"{x:.0f}": x rounded to the nearest integer, a tie to the even one
FormatRounded(x) ==
  LET q == x.num \div x.den
      r2 == 2 * (x.num % x.den)
  IN Digits(IF r2 > x.den \/ (r2 = x.den /\ q % 2 = 1) THEN q + 1 ELSE q)

generate_pattern_reasoning(outcome_analysis) ==
  LET false_positive_rate == Get(outcome_analysis, "false_positive_rate", Rat(1, 2))
      total_findings == Get(outcome_analysis, "total_findings", 0)
      percentage == RMul(false_positive_rate, Rat(100, 1))
  IN IF total_findings = 0 THEN <<"N","o"," ","s","i","m","i","l","a","r"," ","h","i","s","t","o","r","i","c","a","l"," ","f","i","n","d","i","n","g","s"," ","f","o","u","n","d">>
     ELSE FormatRounded(percentage) \o <<"%"," ","o","f"," ","s","i","m","i","l","a","r"," ","f","i","n","d","i","n","g","s"," ","w","e","r","e"," ","f","a","l","s","e"," ","p","o","s","i","t","i","v","e","s">>

\* lines 370-383: the analysis of the similar findings that were found
analyze_similar_findings(similar_findings) ==
  LET outcome_analysis == analyze_outcomes(similar_findings)
      false_positive_probability == calculate_pattern_probability(outcome_analysis)
  IN [similar_findings_count |-> Len(similar_findings),
      false_positive_rate |-> Get(outcome_analysis, "false_positive_rate", Rat(1, 2)),
      pattern_confidence |-> false_positive_probability,
      pattern_reasoning |-> generate_pattern_reasoning(outcome_analysis)]

analyze_historical_patterns(f) == analyze_similar_findings(find_similar_findings(f))

\* analyze_historical_patterns when an exception is raised inside its try block
analyze_historical_patterns_guarded(f, raised) ==
  IF raised
  THEN [similar_findings_count |-> 0, false_positive_rate |-> Rat(1, 2),
        pattern_confidence |-> Rat(1, 2),
        pattern_reasoning |-> <<"P","a","t","t","e","r","n"," ","a","n","a","l","y","s","i","s"," ","f","a","i","l","e","d">>]
  ELSE analyze_historical_patterns(f)

----------------------------------------------------------------------------
(* TemporalAnalyzer *)

load_temporal_patterns ==
  [maintenance_windows |->
     << [start |-> <<"0","2",":","0","0">>, end |-> <<"0","4",":","0","0">>,
         days |-> <<<<"s","a","t","u","r","d","a","y">>, <<"s","u","n","d","a","y">>>>] >>,
   temporary_patterns |->
     << [duration_hours |-> 24, resolution_rate |-> Rat(4, 5)] >>]

TemporalAnalyzer_init == [temporal_patterns |-> load_temporal_patterns]

\* is_temporary_finding remembering that the instance has analysed before
is_temporary_finding_seen(f) == Len(history) > 0

is_temporary_finding(f) == FALSE

analyze_recurrence_pattern(f) == "NONE"

\* is_in_maintenance_window with every finding inside a window
is_in_maintenance_window_always(f) == TRUE

is_in_maintenance_window(f) == FALSE

\* calculate_temporal_risk with the maintenance window tested first
calculate_temporal_risk_window_first(is_temporary, recurrence_pattern, in_maintenance_window) ==
  IF in_maintenance_window THEN "MEDIUM"
  ELSE IF is_temporary THEN "LOW"
  ELSE IF recurrence_pattern # "NONE" THEN "MEDIUM"
  ELSE "HIGH"

calculate_temporal_risk(is_temporary, recurrence_pattern, in_maintenance_window) ==
  IF is_temporary THEN "LOW"
  ELSE IF in_maintenance_window THEN "MEDIUM"
  ELSE IF recurrence_pattern # "NONE" THEN "MEDIUM"
  ELSE "HIGH"

\* lines 465-470: the TemporalAnalysis of the three sub-checks' results
temporal_analysis_of(is_temporary, recurrence_pattern, in_maintenance_window) ==
  [is_temporary |-> is_temporary,
   recurrence_pattern |-> recurrence_pattern,
   in_maintenance_window |-> in_maintenance_window,
   temporal_risk_level |->
     calculate_temporal_risk(is_temporary, recurrence_pattern, in_maintenance_window)]

analyze_temporal_context(f) ==
  temporal_analysis_of(is_temporary_finding(f), analyze_recurrence_pattern(f),
                       is_in_maintenance_window(f))

\* analyze_temporal_context when an exception is raised inside its try block
analyze_temporal_context_guarded(f, raised) ==
  IF raised
  THEN [is_temporary |-> FALSE, recurrence_pattern |-> "NONE",
        in_maintenance_window |-> FALSE, temporal_risk_level |-> "MEDIUM"]
  ELSE analyze_temporal_context(f)

----------------------------------------------------------------------------
(* FalsePositiveAnalysisLambda: the combiner *)

\* the attributes set by FalsePositiveAnalysisLambda.__init__
FalsePositiveAnalysisLambda_init ==
  [environment_analyzer |-> EnvironmentAnalyzer_init,
   business_analyzer |-> BusinessContextAnalyzer_init,
   temporal_analyzer |-> TemporalAnalyzer_init]

\* calculate_environment_score with an unrecognised environment counted as
\* non-production
calculate_environment_score_unknown_high(env) ==
  IF env.environment = "production" THEN Rat(1, 10) ELSE Rat(9, 10)

calculate_environment_score(env) ==
  IF env.environment \in {"test", "development", "staging"} THEN Rat(9, 10)
  ELSE IF env.environment = "production" THEN Rat(1, 10)
  ELSE Rat(1, 2)

calculate_business_score(business) ==
  IF business.has_business_exception THEN Rat(4, 5)
  ELSE IF business.is_critical_resource THEN Rat(1, 5)
  ELSE Rat(1, 2)

calculate_temporal_score(temporal) ==
  IF temporal.is_temporary THEN Rat(4, 5)
  ELSE IF temporal.in_maintenance_window THEN Rat(7, 10)
  ELSE Rat(1, 2)

\* confidence_scores with the environment score left out
confidence_scores_without_env(env, ml, pattern, business, temporal) ==
  (IF ml # None THEN <<ml.confidence>> ELSE <<>>)
  \o (IF pattern # None THEN <<pattern.pattern_confidence>> ELSE <<>>)
  \o (IF business # None THEN <<calculate_business_score(business)>> ELSE <<>>)
  \o (IF temporal # None THEN <<calculate_temporal_score(temporal)>> ELSE <<>>)

\* the list confidence_scores as the combiner has built it before line 619
confidence_scores(env, ml, pattern, business, temporal) ==
  (IF env # None THEN <<calculate_environment_score(env)>> ELSE <<>>)
  \o (IF ml # None THEN <<ml.confidence>> ELSE <<>>)
  \o (IF pattern # None THEN <<pattern.pattern_confidence>> ELSE <<>>)
  \o (IF business # None THEN <<calculate_business_score(business)>> ELSE <<>>)
  \o (IF temporal # None THEN <<calculate_temporal_score(temporal)>> ELSE <<>>)

\* reasoning_parts with the classifier's explanation taken above 0.8
reasoning_parts_ml_above_08(env, ml, pattern, business, temporal) ==
  (IF env # None /\ RGt(calculate_environment_score(env), Rat(4, 5))
   THEN <<<<"F","i","n","d","i","n","g"," ","i","s"," ","i","n"," ","n","o","n","-","p","r","o","d","u","c","t","i","o","n"," ","e","n","v","i","r","o","n","m","e","n","t">>>> ELSE <<>>)
  \o (IF ml # None /\ RGt(ml.confidence, Rat(4, 5)) THEN <<ml.reasoning>> ELSE <<>>)
  \o (IF pattern # None /\ RGt(pattern.pattern_confidence, Rat(4, 5))
      THEN <<pattern.pattern_reasoning>> ELSE <<>>)
  \o (IF business # None /\ business.has_business_exception
      THEN <<<<"F","i","n","d","i","n","g"," ","m","a","t","c","h","e","s"," ","k","n","o","w","n"," ","b","u","s","i","n","e","s","s"," ","e","x","c","e","p","t","i","o","n">>>> ELSE <<>>)
  \o (IF temporal # None /\ temporal.is_temporary
      THEN <<<<"F","i","n","d","i","n","g"," ","a","p","p","e","a","r","s"," ","t","o"," ","b","e"," ","t","e","m","p","o","r","a","r","y">>>> ELSE <<>>)

\* the list reasoning_parts as the combiner has built it before line 619
reasoning_parts(env, ml, pattern, business, temporal) ==
  (IF env # None /\ RGt(calculate_environment_score(env), Rat(4, 5))
   THEN <<<<"F","i","n","d","i","n","g"," ","i","s"," ","i","n"," ","n","o","n","-","p","r","o","d","u","c","t","i","o","n"," ","e","n","v","i","r","o","n","m","e","n","t">>>> ELSE <<>>)
  \o (IF ml # None /\ RGt(ml.confidence, Rat(7, 10)) THEN <<ml.reasoning>> ELSE <<>>)
  \o (IF pattern # None /\ RGt(pattern.pattern_confidence, Rat(4, 5))
      THEN <<pattern.pattern_reasoning>> ELSE <<>>)
  \o (IF business # None /\ business.has_business_exception
      THEN <<<<"F","i","n","d","i","n","g"," ","m","a","t","c","h","e","s"," ","k","n","o","w","n"," ","b","u","s","i","n","e","s","s"," ","e","x","c","e","p","t","i","o","n">>>> ELSE <<>>)
  \o (IF temporal # None /\ temporal.is_temporary
      THEN <<<<"F","i","n","d","i","n","g"," ","a","p","p","e","a","r","s"," ","t","o"," ","b","e"," ","t","e","m","p","o","r","a","r","y">>>> ELSE <<>>)

\* final_confidence without the division by the number of scores
final_confidence_sum(scores) ==
  IF Len(scores) > 0 THEN RSum(scores) ELSE Rat(1, 2)

final_confidence(scores) ==
  IF Len(scores) > 0 THEN RDivInt(RSum(scores), Len(scores)) ELSE Rat(1, 2)

\* recommended_action with >= in place of >
recommended_action_ge(confidence) ==
  IF ~RLt(confidence, Rat(9, 10)) THEN "SUPPRESS"
  ELSE IF ~RLt(confidence, Rat(7, 10)) THEN "DOWNGRADE"
  ELSE "REVIEW"

recommended_action(confidence) ==
  IF RGt(confidence, Rat(9, 10)) THEN "SUPPRESS"
  ELSE IF RGt(confidence, Rat(7, 10)) THEN "DOWNGRADE"
  ELSE "REVIEW"

\* combine_analysis_results dividing the sum of the scores by five
combine_analysis_results_fixed_divisor(env, ml, pattern, business, temporal) ==
  LET scores == confidence_scores(env, ml, pattern, business, temporal)
      parts == reasoning_parts(env, ml, pattern, business, temporal)
      confidence == IF Len(scores) > 0 THEN RDivInt(RSum(scores), 5) ELSE Rat(1, 2)
  IN [is_false_positive |-> RGt(confidence, Rat(7, 10)),
      confidence |-> confidence,
      reasoning |-> IF Len(parts) > 0 THEN Join(parts, <<";"," ">>)
                    ELSE <<"N","o"," ","s","p","e","c","i","f","i","c"," ","i","n","d","i","c","a","t","o","r","s">>,
      recommended_action |-> recommended_action(confidence)]

combine_analysis_results(env, ml, pattern, business, temporal) ==
  LET scores == confidence_scores(env, ml, pattern, business, temporal)
      parts == reasoning_parts(env, ml, pattern, business, temporal)
      confidence == final_confidence(scores)
  IN [is_false_positive |-> RGt(confidence, Rat(7, 10)),
      confidence |-> confidence,
      reasoning |-> IF Len(parts) > 0 THEN Join(parts, <<";"," ">>)
                    ELSE <<"N","o"," ","s","p","e","c","i","f","i","c"," ","i","n","d","i","c","a","t","o","r","s">>,
      recommended_action |-> recommended_action(confidence)]

OptionKeys ==
  {"include_ml_classification", "include_pattern_analysis",
   "include_business_context", "include_temporal_analysis"}

\* get_models_used with an absent option read as false
get_models_used_default_false(opts) ==
  <<"environment_analyzer">>
  \o (IF Get(opts, "include_ml_classification", FALSE) THEN <<"ml_classifier">> ELSE <<>>)
  \o (IF Get(opts, "include_pattern_analysis", FALSE) THEN <<"pattern_recognizer">> ELSE <<>>)
  \o (IF Get(opts, "include_business_context", FALSE) THEN <<"business_analyzer">> ELSE <<>>)
  \o (IF Get(opts, "include_temporal_analysis", FALSE) THEN <<"temporal_analyzer">> ELSE <<>>)

get_models_used(opts) ==
  <<"environment_analyzer">>
  \o (IF Get(opts, "include_ml_classification", TRUE) THEN <<"ml_classifier">> ELSE <<>>)
  \o (IF Get(opts, "include_pattern_analysis", TRUE) THEN <<"pattern_recognizer">> ELSE <<>>)
  \o (IF Get(opts, "include_business_context", TRUE) THEN <<"business_analyzer">> ELSE <<>>)
  \o (IF Get(opts, "include_temporal_analysis", TRUE) THEN <<"temporal_analyzer">> ELSE <<>>)

\* f"fp-analysis-{finding['Id'].split('/')[-1]}"
analysis_id(f) ==
  LET parts == Split(f["Id"], "/") IN <<"f","p","-","a","n","a","l","y","s","i","s","-">> \o parts[Len(parts)]

\* the except clause of analyze_finding returning what has been computed
analyze_finding_except_partial ==
  [classification |-> classification,
   environment_analysis |-> environment_analysis,
   ml_classification |-> ml_classification,
   pattern_analysis |-> pattern_analysis,
   business_context |-> business_context,
   temporal_analysis |-> temporal_analysis]

\* lines 572-574: the exception is logged and raised again, so that the call
\* has no value
analyze_finding_except == None

----------------------------------------------------------------------------
(* lambda_handler *)

\* calling the async analyze_finding without await yields a coroutine object;
\* none of its body runs
analyze_finding_call(f, opts) == [coroutine |-> "analyze_finding"]

\* json.dumps accepts dicts, lists, strings, numbers, booleans and None
JsonSerializable(obj) == "coroutine" \notin DOMAIN obj

\* lambda_handler without the test of line 689
lambda_handler_unguarded(event) ==
  LET opts == Get(event, "analysis_options", EmptyDict)
      res == analyze_finding_call(Get(event, "finding", None), opts)
  IN IF JsonSerializable(res)
     THEN [statusCode |-> 200, body |-> res]
     ELSE [statusCode |-> 500,
           body |-> [error |-> <<"O","b","j","e","c","t"," ","o","f"," ","t","y","p","e"," ","c","o","r","o","u","t","i","n","e"," ","i","s"," ","n","o","t"," ","J","S","O","N"," ","s","e","r","i","a","l","i","z","a","b","l","e">>]]

lambda_handler(event) ==
  LET opts == Get(event, "analysis_options", EmptyDict)
      missing == "finding" \notin DOMAIN event
  IN IF missing \/ DOMAIN event["finding"] = {}
     THEN [statusCode |-> 500, body |-> [error |-> <<"N","o"," ","f","i","n","d","i","n","g"," ","p","r","o","v","i","d","e","d"," ","i","n"," ","e","v","e","n","t">>]]
     ELSE LET res == analyze_finding_call(event["finding"], opts)
          IN IF JsonSerializable(res)
             THEN [statusCode |-> 200, body |-> res]
             ELSE [statusCode |-> 500,
                   body |-> [error |-> <<"O","b","j","e","c","t"," ","o","f"," ","t","y","p","e"," ","c","o","r","o","u","t","i","n","e"," ","i","s"," ","n","o","t"," ","J","S","O","N"," ","s","e","r","i","a","l","i","z","a","b","l","e">>]]

----------------------------------------------------------------------------
(* Requests *)

RootArn == <<"a","r","n",":","a","w","s",":","i","a","m",":",":","1","2","3","4","5","6","7","8","9","0","1","2",":","r","o","o","t">>
InstanceArn == <<"a","r","n",":","a","w","s",":","e","c","2",":","u","s","-","w","e","s","t","-","2",":","1","2","3","4","5","6","7","8","9","0","1","2",":","i","n","s","t","a","n","c","e","/","i","-","0","a","b","c">>
ProductionDataArn == <<"a","r","n",":","a","w","s",":","s","3",":",":",":","p","r","o","d","u","c","t","i","o","n","-","d","a","t","a","-","1">>
QaBucketArn == <<"a","r","n",":","a","w","s",":","s","3",":",":",":","Q","A","-","B","u","c","k","e","t">>
BareRootArn == <<"a","r","n",":","a","w","s",":","i","a","m",":",":",":","r","o","o","t">>

Fsbp(control) == <<"a","w","s","-","f","s","b","p","/","v","/","1",".","0",".","0","/">> \o control

Tag(k, v) == <<k, v>>

TagDicts ==
  { <<>>,
    <<Tag(<<"E","n","v","i","r","o","n","m","e","n","t">>, <<"p","r","o","d","u","c","t","i","o","n">>)>>,
    <<Tag(<<"E","n","v","i","r","o","n","m","e","n","t">>, <<"p","r","o","d","u","c","t","i","o","n">>), Tag(<<"P","r","o","j","e","c","t">>, <<"t","e","s","t","-","p","r","o","j","e","c","t">>)>>,
    <<Tag(<<"E","n","v","i","r","o","n","m","e","n","t">>, <<"d","e","v","e","l","o","p","m","e","n","t">>), Tag(<<"P","r","o","j","e","c","t">>, <<"t","e","s","t","-","p","r","o","j","e","c","t">>)>>,
    <<Tag(<<"E","n","v","i","r","o","n","m","e","n","t">>, <<"s","t","a","g","i","n","g">>), Tag(<<"P","r","o","j","e","c","t">>, <<"d","e","m","o","-","b","u","c","k","e","t">>)>>,
    <<Tag(<<"E","n","v","i","r","o","n","m","e","n","t">>, <<"d","e","v">>)>>,
    <<Tag(<<"E","n","v","i","r","o","n","m","e","n","t">>, <<"u","n","k","n","o","w","n">>)>>,
    <<Tag(<<"T","e","a","m">>, <<"F","e","a","t","u","r","e","-","X">>)>> }

SeverityLabels == {<<"C","R","I","T","I","C","A","L">>, <<"H","I","G","H">>, <<"M","E","D","I","U","M">>, <<"L","O","W">>}

MkFinding(generator_id, account_id, label, resources) ==
  [Id |-> <<"s","u","b","/">> \o generator_id \o <<"/","f","i","n","d","i","n","g","/","1","2","3","4">>,
   GeneratorId |-> generator_id,
   AwsAccountId |-> account_id,
   Severity |-> [Label |-> label],
   Title |-> <<"R","o","o","t"," ","u","s","e","r"," ","a","c","c","e","s","s"," ","k","e","y"," ","s","h","o","u","l","d"," ","n","o","t"," ","e","x","i","s","t">>,
   Resources |-> resources]

MkResource(id, tags) == [Id |-> id, Tags |-> tags]

\* one resource, every tag dict and severity, the account of the tests
GenericFindings ==
  { MkFinding(Fsbp(<<"I","A","M",".","1">>), <<"1","2","3","4","5","6","7","8","9","0","1","2">>, label, <<MkResource(id, tags)>>) :
      label \in SeverityLabels, id \in {RootArn, InstanceArn}, tags \in TagDicts }

\* findings whose exception key is in the registry, and near misses
ExceptionFindings ==
  { MkFinding(g, a, label, <<MkResource(id, tags)>>) :
      label \in {<<"C","R","I","T","I","C","A","L">>, <<"M","E","D","I","U","M">>},
      id \in {InstanceArn},
      g \in {Fsbp(<<"I","A","M",".","1">>), Fsbp(<<"S","3",".","1">>), <<"E","C","2",".","1">>},
      a \in {<<"t","e","s","t","-","a","c","c","o","u","n","t">>, <<"d","e","m","o","-","b","u","c","k","e","t">>, <<"t","e","s","t","-","i","n","s","t","a","n","c","e">>},
      tags \in { <<Tag(<<"E","n","v","i","r","o","n","m","e","n","t">>, <<"d","e","v","e","l","o","p","m","e","n","t">>)>>,
                 <<Tag(<<"E","n","v","i","r","o","n","m","e","n","t">>, <<"s","t","a","g","i","n","g">>), Tag(<<"P","r","o","j","e","c","t">>, <<"d","e","m","o","-","b","u","c","k","e","t">>)>>,
                 <<Tag(<<"E","n","v","i","r","o","n","m","e","n","t">>, <<"d","e","v">>)>> } }

\* the Title of create_test_finding
TestTitle == <<"T","e","s","t"," ","f","i","n","d","i","n","g"," ","f","o","r"," ","f","a","l","s","e"," ","p","o","s","i","t","i","v","e"," ","a","n","a","l","y","s","i","s">>

\* other resource shapes: no Resources key, an empty list, a resource without
\* keys, two resources, other identifiers (one of them a critical resource
\* without an environment keyword, one a critical resource with a registered
\* exception), no Severity label, and the title of the
\* test suite's findings on a resource without an environment keyword
ShapeFindings ==
  LET base == MkFinding(Fsbp(<<"I","A","M",".","1">>), <<"1","2","3","4","5","6","7","8","9","0","1","2">>, <<"H","I","G","H">>, <<>>)
      prod == <<Tag(<<"E","n","v","i","r","o","n","m","e","n","t">>, <<"p","r","o","d","u","c","t","i","o","n">>)>>
  IN { [k \in DOMAIN base \ {"Resources"} |-> base[k]],
       base,
       [base EXCEPT !.Resources = <<EmptyDict>>],
       [base EXCEPT !.Resources = <<[Id |-> InstanceArn]>>],
       [base EXCEPT !.Resources = <<MkResource(ProductionDataArn, <<>>)>>],
       [base EXCEPT !.Resources = <<MkResource(QaBucketArn, prod)>>],
       [base EXCEPT !.Resources = <<MkResource(BareRootArn, <<>>)>>],
       [base EXCEPT !.AwsAccountId = <<"t","e","s","t","-","a","c","c","o","u","n","t">>,
                    !.Resources = <<MkResource(ProductionDataArn,
                                               <<Tag(<<"E","n","v","i","r","o","n","m","e","n","t">>, <<"d","e","v","e","l","o","p","m","e","n","t">>)>>)>>],
       [base EXCEPT !.Severity = [Label |-> <<"C","R","I","T","I","C","A","L">>], !.Title = TestTitle,
                    !.Resources = <<MkResource(RootArn, <<>>)>>],
       [base EXCEPT !.Resources = <<MkResource(InstanceArn, prod), MkResource(QaBucketArn, <<>>)>>],
       [base EXCEPT !.Severity = EmptyDict, !.Resources = <<MkResource(InstanceArn, prod)>>],
       [base EXCEPT !.Severity = [Label |-> <<"L","O","W">>],
                    !.Resources = <<MkResource(InstanceArn, prod)>>],
       [k \in DOMAIN base \ {"Severity"} |->
          IF k = "Resources" THEN <<MkResource(InstanceArn, <<>>)>> ELSE base[k]] }

Findings == GenericFindings \cup ExceptionFindings \cup ShapeFindings

\* analysis_options dicts: every key true or false, or any keys absent and
\* the others false
OptionDicts ==
  [OptionKeys -> BOOLEAN] \cup UNION { [D -> {FALSE}] : D \in SUBSET OptionKeys }

AllEnabled == [k \in OptionKeys |-> TRUE]
AllDisabled == [k \in OptionKeys |-> FALSE]

\* the events lambda_handler is invoked with
Events ==
  { [finding |-> f, analysis_options |-> o] : f \in Findings, o \in {AllEnabled, AllDisabled} }
  \cup { [finding |-> f] : f \in Findings }
  \cup { [analysis_options |-> o] : o \in OptionDicts }
  \cup { [finding |-> EmptyDict, analysis_options |-> EmptyDict], EmptyDict }

----------------------------------------------------------------------------
(* The engine instance and one request at a time *)

\* fault names the analyzer whose body raises an exception in this request
Faults == {"ml_classifier", "pattern_recognizer", "business_analyzer", "temporal_analyzer"}

Init ==
  /\ analyzer = FalsePositiveAnalysisLambda_init
  /\ pc = "idle"
  /\ finding = None
  /\ options = None
  /\ environment_analysis = None
  /\ ml_classification = None
  /\ pattern_analysis = None
  /\ business_context = None
  /\ temporal_analysis = None
  /\ classification = None
  /\ invoked = <<>>
  /\ result = None
  /\ response = None
  /\ lambda_event = None
  /\ history = <<>>
  /\ fault = "none"
  /\ pending = {}
  /\ args = None

\* a caller awaits analyzer.analyze_finding(f, o): lines 518-521
Begin(f, o) ==
  /\ pc = "idle"
  /\ pc' = "environment"
  /\ finding' = f
  /\ options' = o
  /\ UNCHANGED <<analyzer, environment_analysis, ml_classification, pattern_analysis,
                 business_context, temporal_analysis, classification, invoked,
                 result, response, lambda_event>>

Start ==
  \E f \in Findings, o \in OptionDicts :
    Begin(f, o) /\ UNCHANGED <<history, fault, pending, args>>

\* EnvironmentEffect leaving the environment analysis out when the four
\* options are false
EnvironmentEffect_optional ==
  /\ IF \E k \in OptionKeys : Get(options, k, TRUE)
     THEN /\ environment_analysis' =
               analyze_environment_context(analyzer.environment_analyzer, finding)
          /\ invoked' = Append(invoked, "environment_analyzer")
     ELSE /\ environment_analysis' = None
          /\ invoked' = invoked
  /\ UNCHANGED <<analyzer, finding, options, ml_classification, pattern_analysis,
                 business_context, temporal_analysis, classification, result,
                 response, lambda_event, history, fault, args>>

\* lines 524-525
EnvironmentEffect ==
  /\ environment_analysis' = analyze_environment_context(analyzer.environment_analyzer, finding)
  /\ invoked' = Append(invoked, "environment_analyzer")
  /\ UNCHANGED <<analyzer, finding, options, ml_classification, pattern_analysis,
                 business_context, temporal_analysis, classification, result,
                 response, lambda_event, history, fault, args>>

EnvironmentStep ==
  /\ pc = "environment"
  /\ EnvironmentEffect
  /\ pc' = "ml"
  /\ UNCHANGED pending

\* lines 527-530
MLEffect ==
  /\ IF Get(options, "include_ml_classification", TRUE)
     THEN /\ ml_classification' = classify_finding_guarded(finding, fault = "ml_classifier")
          /\ invoked' = Append(invoked, "ml_classifier")
     ELSE /\ ml_classification' = None
          /\ invoked' = invoked
  /\ UNCHANGED <<analyzer, finding, options, environment_analysis, pattern_analysis,
                 business_context, temporal_analysis, classification, result,
                 response, lambda_event, history, fault, args>>

MLStep ==
  /\ pc = "ml"
  /\ MLEffect
  /\ pc' = "pattern"
  /\ UNCHANGED pending

\* lines 532-535
PatternEffect ==
  /\ IF Get(options, "include_pattern_analysis", TRUE)
     THEN /\ pattern_analysis' =
               analyze_historical_patterns_guarded(finding, fault = "pattern_recognizer")
          /\ invoked' = Append(invoked, "pattern_recognizer")
     ELSE /\ pattern_analysis' = None
          /\ invoked' = invoked
  /\ UNCHANGED <<analyzer, finding, options, environment_analysis, ml_classification,
                 business_context, temporal_analysis, classification, result,
                 response, lambda_event, history, fault, args>>

PatternStep ==
  /\ pc = "pattern"
  /\ PatternEffect
  /\ pc' = "business"
  /\ UNCHANGED pending

\* lines 537-540 when analyze_business_context returns
BusinessEffect ==
  /\ IF Get(options, "include_business_context", TRUE)
     THEN /\ business_context' = analyze_business_context(analyzer.business_analyzer, finding)
          /\ analyzer' = [analyzer EXCEPT !.business_analyzer =
                                            business_analyzer_after(@, finding)]
          /\ invoked' = Append(invoked, "business_analyzer")
     ELSE /\ business_context' = None
          /\ analyzer' = analyzer
          /\ invoked' = invoked
  /\ UNCHANGED <<finding, options, environment_analysis, ml_classification,
                 pattern_analysis, temporal_analysis, classification, result,
                 response, lambda_event, history, fault, args>>

\* an exception leaves analyze_finding through lines 572-574
Propagate ==
  /\ pc' = "raised"
  /\ result' = analyze_finding_except
  /\ UNCHANGED <<analyzer, finding, options, environment_analysis, ml_classification,
                 pattern_analysis, business_context, temporal_analysis, classification,
                 invoked, response, lambda_event, history, fault, args>>

\* analyze_business_context has no try block: what is raised in it propagates
BusinessStep ==
  /\ pc = "business"
  /\ IF Get(options, "include_business_context", TRUE) /\ fault = "business_analyzer"
     THEN Propagate
     ELSE BusinessEffect /\ pc' = "temporal"
  /\ UNCHANGED pending

\* lines 542-545
TemporalEffect ==
  /\ IF Get(options, "include_temporal_analysis", TRUE)
     THEN /\ temporal_analysis' =
               analyze_temporal_context_guarded(finding, fault = "temporal_analyzer")
          /\ invoked' = Append(invoked, "temporal_analyzer")
     ELSE /\ temporal_analysis' = None
          /\ invoked' = invoked
  /\ UNCHANGED <<analyzer, finding, options, environment_analysis, ml_classification,
                 pattern_analysis, business_context, classification, result,
                 response, lambda_event, history, fault, args>>

TemporalStep ==
  /\ pc = "temporal"
  /\ TemporalEffect
  /\ pc' = "combine"
  /\ UNCHANGED pending

\* lines 547-551
Combine ==
  /\ pc = "combine"
  /\ classification' = combine_analysis_results(environment_analysis, ml_classification,
                                                pattern_analysis, business_context,
                                                temporal_analysis)
  /\ pc' = "return"
  /\ UNCHANGED <<analyzer, finding, options, environment_analysis, ml_classification,
                 pattern_analysis, business_context, temporal_analysis, invoked,
                 result, response, lambda_event, history, fault, pending, args>>

\* the dict returned at lines 556-570, without the wall-clock fields
Disposition ==
  [analysis_id |-> analysis_id(finding),
   finding_id |-> finding["Id"],
   classification |-> classification,
   environment_analysis |-> environment_analysis,
   ml_classification |-> ml_classification,
   pattern_analysis |-> pattern_analysis,
   business_context |-> business_context,
   temporal_analysis |-> temporal_analysis,
   processing_metadata |-> [models_used |-> get_models_used(options)]]

Finish ==
  /\ pc = "return"
  /\ result' = Disposition
  /\ pc' = "done"
  /\ UNCHANGED <<analyzer, finding, options, environment_analysis, ml_classification,
                 pattern_analysis, business_context, temporal_analysis, classification,
                 invoked, response, lambda_event, fault, pending, args>>

Return == Finish /\ UNCHANGED history

\* lambda_handler(event, None): lines 682-708
LambdaHandler ==
  \E ev \in Events :
    /\ pc = "idle"
    /\ lambda_event' = ev
    /\ response' = lambda_handler(ev)
    /\ pc' = "responded"
    /\ UNCHANGED <<analyzer, finding, options, environment_analysis, ml_classification,
                   pattern_analysis, business_context, temporal_analysis,
                   classification, invoked, result, history, fault, pending, args>>

\* the caller has taken the returned value or the exception; the frame of the
\* call is gone
Release ==
  /\ pc \in {"done", "responded", "raised", "cancelled"}
  /\ pc' = "idle"
  /\ finding' = None
  /\ options' = None
  /\ environment_analysis' = None
  /\ ml_classification' = None
  /\ pattern_analysis' = None
  /\ business_context' = None
  /\ temporal_analysis' = None
  /\ classification' = None
  /\ invoked' = <<>>
  /\ result' = None
  /\ response' = None
  /\ lambda_event' = None
  /\ fault' = "none"
  /\ pending' = {}
  /\ UNCHANGED <<analyzer, history, args>>

Next ==
  \/ Start
  \/ EnvironmentStep
  \/ MLStep
  \/ PatternStep
  \/ BusinessStep
  \/ TemporalStep
  \/ Combine
  \/ Return
  \/ LambdaHandler
  \/ Release

Spec == Init /\ [][Next]_vars

----------------------------------------------------------------------------
(* One engine instance serving several requests, with the log of what it   *)
(* returned                                                                *)

RepeatFindings ==
  { MkFinding(Fsbp(<<"I","A","M",".","1">>), <<"1","2","3","4","5","6","7","8","9","0","1","2">>, <<"M","E","D","I","U","M">>,
              <<MkResource(RootArn, <<Tag(<<"E","n","v","i","r","o","n","m","e","n","t">>, <<"d","e","v","e","l","o","p","m","e","n","t">>),
                                      Tag(<<"P","r","o","j","e","c","t">>, <<"t","e","s","t","-","p","r","o","j","e","c","t">>)>>)>>),
    MkFinding(Fsbp(<<"I","A","M",".","1">>), <<"1","2","3","4","5","6","7","8","9","0","1","2">>, <<"H","I","G","H">>,
              <<MkResource(InstanceArn, <<Tag(<<"E","n","v","i","r","o","n","m","e","n","t">>, <<"p","r","o","d","u","c","t","i","o","n">>)>>)>>),
    MkFinding(Fsbp(<<"I","A","M",".","1">>), <<"t","e","s","t","-","a","c","c","o","u","n","t">>, <<"C","R","I","T","I","C","A","L">>,
              <<MkResource(InstanceArn, <<Tag(<<"E","n","v","i","r","o","n","m","e","n","t">>, <<"d","e","v","e","l","o","p","m","e","n","t">>)>>)>>),
    MkFinding(Fsbp(<<"I","A","M",".","1">>), <<"1","2","3","4","5","6","7","8","9","0","1","2">>, <<"L","O","W">>,
              <<MkResource(InstanceArn, <<>>)>>) }

RepeatOptions ==
  { AllEnabled, AllDisabled, EmptyDict,
    [include_ml_classification |-> FALSE, include_pattern_analysis |-> FALSE] }

StartRepeat ==
  /\ Len(history) < MaxRequests
  /\ \E f \in RepeatFindings, o \in RepeatOptions : Begin(f, o)
  /\ UNCHANGED <<history, fault, pending, args>>

ReturnRepeat ==
  /\ Finish
  /\ history' = Append(history, [finding |-> finding, options |-> options,
                                 classification |-> classification])

NextRepeat ==
  \/ StartRepeat
  \/ EnvironmentStep
  \/ MLStep
  \/ PatternStep
  \/ BusinessStep
  \/ TemporalStep
  \/ Combine
  \/ ReturnRepeat
  \/ Release

SpecRepeat == Init /\ [][NextRepeat]_vars

----------------------------------------------------------------------------
(* The combiner on its own: combine_analysis_results applied to analysis   *)
(* results drawn from the value ranges of the data classes                 *)

Tiers == {"production", "staging", "development", "test", "unknown"}

EnvironmentContexts ==
  { [environment |-> e, risk_level |-> assess_environment_risk(e),
     is_production |-> e = "production",
     requires_immediate_action |-> e = "production"] : e \in Tiers }

\* confidences k/20
Grid == { Rat(k, 20) : k \in 0..20 }

\* any confidence of the grid, and what the classifier returns for the
\* findings of RepeatFindings
Classifications ==
  { [is_false_positive |-> RGt(c, Rat(7, 10)), confidence |-> c,
     reasoning |-> <<"S","i","m","i","l","a","r"," ","f","i","n","d","i","n","g","s"," ","w","e","r","e"," ","p","r","e","v","i","o","u","s","l","y"," ","f","a","l","s","e"," ","p","o","s","i","t","i","v","e","s">>] : c \in Grid }
  \cup { classify_finding(f) : f \in RepeatFindings }

PatternAnalyses ==
  { [similar_findings_count |-> 12, false_positive_rate |-> c, pattern_confidence |-> c,
     pattern_reasoning |-> generate_pattern_reasoning(
        [false_positive_rate |-> c, total_findings |-> 12])] :
       c \in {Rat(0, 1), Rat(1, 2), Rat(5, 6), Rat(1, 1)} }

BusinessContexts ==
  { [is_critical_resource |-> c, has_business_exception |-> x,
     business_impact |-> IF c THEN "HIGH" ELSE "LOW",
     requires_business_review |-> c \/ x] : c \in BOOLEAN, x \in BOOLEAN }

TemporalAnalyses ==
  { [is_temporary |-> t, recurrence_pattern |-> "NONE", in_maintenance_window |-> m,
     temporal_risk_level |-> calculate_temporal_risk(t, "NONE", m)] :
       t \in BOOLEAN, m \in BOOLEAN }

InitCombine ==
  /\ analyzer = FalsePositiveAnalysisLambda_init
  /\ pc = "combine"
  /\ finding = None
  /\ options = None
  /\ environment_analysis \in EnvironmentContexts \cup {None}
  /\ ml_classification \in Classifications \cup {None}
  /\ pattern_analysis \in PatternAnalyses \cup {None}
  /\ business_context \in BusinessContexts \cup {None}
  /\ temporal_analysis \in TemporalAnalyses \cup {None}
  /\ classification = None
  /\ invoked = <<>>
  /\ result = None
  /\ response = None
  /\ lambda_event = None
  /\ history = <<>>
  /\ fault = "none"
  /\ pending = {}
  /\ args = None

NextCombine == Combine

SpecCombine == InitCombine /\ [][NextCombine]_vars


----------------------------------------------------------------------------
(* A request in which the body of one analyzer raises, or which is         *)
(* cancelled while it is awaiting an analyzer                              *)

StartFault ==
  /\ \E f \in RepeatFindings, o \in RepeatOptions : Begin(f, o)
  /\ \E x \in Faults \cup {"none"} : fault' = x
  /\ UNCHANGED <<history, pending, args>>

\* a CancelledError thrown into the coroutine at one of its awaits is not an
\* Exception: no handler of the module catches it and the call has no value
Cancel ==
  /\ pc \in {"environment", "ml", "pattern", "business", "temporal", "combine"}
  /\ pc' = "cancelled"
  /\ UNCHANGED <<analyzer, finding, options, environment_analysis, ml_classification,
                 pattern_analysis, business_context, temporal_analysis, classification,
                 invoked, result, response, lambda_event, history, fault, pending, args>>

NextFault ==
  \/ StartFault
  \/ EnvironmentStep
  \/ MLStep
  \/ PatternStep
  \/ BusinessStep
  \/ TemporalStep
  \/ Combine
  \/ Return
  \/ Cancel
  \/ Release

SpecFault == Init /\ [][NextFault]_vars

----------------------------------------------------------------------------
(* The five analyses of lines 524-545 run as tasks in any order and joined *)
(* before the combiner                                                     *)

Tasks == {"environment", "ml", "pattern", "business", "temporal"}

StartAnyOrder ==
  \E f \in RepeatFindings, o \in RepeatOptions :
    /\ pc = "idle"
    /\ pc' = "analyses"
    /\ finding' = f
    /\ options' = o
    /\ pending' = Tasks
    /\ UNCHANGED <<analyzer, environment_analysis, ml_classification, pattern_analysis,
                   business_context, temporal_analysis, classification, invoked,
                   result, response, lambda_event, history, fault, args>>

RunEnvironment ==
  /\ pc = "analyses" /\ "environment" \in pending
  /\ EnvironmentEffect
  /\ pending' = pending \ {"environment"}
  /\ UNCHANGED pc

RunML ==
  /\ pc = "analyses" /\ "ml" \in pending
  /\ MLEffect
  /\ pending' = pending \ {"ml"}
  /\ UNCHANGED pc

RunPattern ==
  /\ pc = "analyses" /\ "pattern" \in pending
  /\ PatternEffect
  /\ pending' = pending \ {"pattern"}
  /\ UNCHANGED pc

RunBusiness ==
  /\ pc = "analyses" /\ "business" \in pending
  /\ BusinessEffect
  /\ pending' = pending \ {"business"}
  /\ UNCHANGED pc

RunTemporal ==
  /\ pc = "analyses" /\ "temporal" \in pending
  /\ TemporalEffect
  /\ pending' = pending \ {"temporal"}
  /\ UNCHANGED pc

\* the combiner is called with the five results
JoinAnalyses ==
  /\ pc = "analyses" /\ pending = {}
  /\ pc' = "combine"
  /\ UNCHANGED <<analyzer, finding, options, environment_analysis, ml_classification,
                 pattern_analysis, business_context, temporal_analysis, classification,
                 invoked, result, response, lambda_event, history, fault, pending, args>>

NextAnyOrder ==
  \/ StartAnyOrder
  \/ RunEnvironment
  \/ RunML
  \/ RunPattern
  \/ RunBusiness
  \/ RunTemporal
  \/ JoinAnalyses
  \/ Combine
  \/ Return
  \/ Release

SpecAnyOrder == Init /\ [][NextAnyOrder]_vars

----------------------------------------------------------------------------
(* The functions of the analyzers applied on their own to arguments drawn  *)
(* from their parameter types, followed by the combiner                    *)

\* a similar finding is a dict of which only WorkflowState is read
SimilarFindings == {[WorkflowState |-> "SUPPRESSED"], [WorkflowState |-> "NEW"]}

Histories ==
  UNION { [1..n -> SimilarFindings] : n \in 0..MaxHistory }
  \cup { <<EmptyDict>>, <<EmptyDict, [WorkflowState |-> "SUPPRESSED"]>> }

RecurrencePatterns == {"NONE", "DAILY", "WEEKLY"}

Levels == {Rat(0, 1), Rat(1, 2), Rat(1, 1)}

FeatureVectors ==
  [1..5 -> Levels] \cup { extract_features(f) : f \in RepeatFindings }

FunctionCalls ==
  { [fn |-> "analyze_historical_patterns", similar_findings |-> h] : h \in Histories }
  \cup { [fn |-> "analyze_temporal_context", is_temporary |-> t,
          recurrence_pattern |-> r, in_maintenance_window |-> m] :
            t \in BOOLEAN, r \in RecurrencePatterns, m \in BOOLEAN }
  \cup { [fn |-> "classify_finding", features |-> v] : v \in FeatureVectors }

InitFunctions ==
  /\ analyzer = FalsePositiveAnalysisLambda_init
  /\ pc = "call"
  /\ finding = None
  /\ options = None
  /\ environment_analysis = None
  /\ ml_classification = None
  /\ pattern_analysis = None
  /\ business_context = None
  /\ temporal_analysis = None
  /\ classification = None
  /\ invoked = <<>>
  /\ result = None
  /\ response = None
  /\ lambda_event = None
  /\ history = <<>>
  /\ fault = "none"
  /\ pending = {}
  /\ args \in FunctionCalls

\* lines 370-383 on the similar findings of the call
AnalyzeSimilarFindings ==
  /\ pc = "call" /\ args.fn = "analyze_historical_patterns"
  /\ pattern_analysis' = analyze_similar_findings(args.similar_findings)
  /\ pc' = "combine"
  /\ UNCHANGED <<analyzer, finding, options, environment_analysis, ml_classification,
                 business_context, temporal_analysis, classification, invoked, result,
                 response, lambda_event, history, fault, pending, args>>

\* lines 465-470 on the sub-checks' results of the call
CalculateTemporalRisk ==
  /\ pc = "call" /\ args.fn = "analyze_temporal_context"
  /\ temporal_analysis' = temporal_analysis_of(args.is_temporary, args.recurrence_pattern,
                                               args.in_maintenance_window)
  /\ pc' = "combine"
  /\ UNCHANGED <<analyzer, finding, options, environment_analysis, ml_classification,
                 pattern_analysis, business_context, classification, invoked, result,
                 response, lambda_event, history, fault, pending, args>>

\* lines 254-262 on the features of the call
ClassifyFeatures ==
  /\ pc = "call" /\ args.fn = "classify_finding"
  /\ ml_classification' = classify_features(finding, args.features)
  /\ pc' = "combine"
  /\ UNCHANGED <<analyzer, finding, options, environment_analysis, pattern_analysis,
                 business_context, temporal_analysis, classification, invoked, result,
                 response, lambda_event, history, fault, pending, args>>

NextFunctions ==
  \/ AnalyzeSimilarFindings
  \/ CalculateTemporalRisk
  \/ ClassifyFeatures
  \/ Combine

SpecFunctions == InitFunctions /\ [][NextFunctions]_vars
----------------------------------------------------------------------------
(* Properties *)

Zero == Rat(0, 1)
One == Rat(1, 1)
InUnit(x) == RLe(Zero, x) /\ RLe(x, One)

\* every option is true or absent
AllOn(opts) == \A k \in OptionKeys : Get(opts, k, TRUE)

\* the first resource of a finding that has one with the key Resources
FirstResource(f) == f["Resources"][1]
HasResource(f) == "Resources" \in DOMAIN f /\ Len(f["Resources"]) > 0

SeverityOf(f) == Get(Get(f, "Severity", EmptyDict), "Label", <<>>)

\* C1: every score that enters the combiner's mean, the pattern
\* false_positive_rate and the final confidence lie in [0,1], for every
\* finding and every combination of options.
C1_ScoresInUnitInterval ==
  LET scores == confidence_scores(environment_analysis, ml_classification,
                                  pattern_analysis, business_context, temporal_analysis)
  IN /\ \A i \in 1..Len(scores) : InUnit(scores[i])
     /\ pattern_analysis # None => InUnit(pattern_analysis.false_positive_rate)
     /\ classification # None => InUnit(classification.confidence)

C1_Witness ==
  /\ pc = "done"
  /\ ml_classification # None /\ pattern_analysis # None
  /\ business_context # None /\ temporal_analysis # None
  /\ classification.confidence = Rat(341, 500)

\* C2: recommended_action is decided by the final confidence alone:
\* above 0.9 SUPPRESS, above 0.7 and at most 0.9 DOWNGRADE, at most 0.7
\* REVIEW; the action never becomes less aggressive as confidence grows.
C2_ActionByConfidence ==
  classification # None =>
    LET c == classification.confidence
        a == classification.recommended_action
    IN /\ 10 * c.num > 9 * c.den => a = "SUPPRESS"
       /\ (10 * c.num > 7 * c.den /\ 10 * c.num <= 9 * c.den) => a = "DOWNGRADE"
       /\ 10 * c.num <= 7 * c.den => a = "REVIEW"
       /\ c = Rat(19, 20) => a = "SUPPRESS"
       /\ c = Rat(4, 5) => a = "DOWNGRADE"
       /\ c = Rat(1, 2) => a = "REVIEW"

C2_Witness ==
  /\ pc = "return"
  /\ classification.confidence = Rat(19, 20)
  /\ classification.recommended_action = "SUPPRESS"

\* C3: a finding whose first resource is tagged Environment=production and
\* whose severity is HIGH is, with all options enabled, not a false positive
\* and has confidence below 0.5.
C3_ProductionHighIsTruePositive ==
  (/\ pc = "done"
   /\ AllOn(options)
   /\ HasResource(finding)
   /\ TagGet(Get(FirstResource(finding), "Tags", <<>>), <<"E","n","v","i","r","o","n","m","e","n","t">>, <<>>) = <<"p","r","o","d","u","c","t","i","o","n">>
   /\ SeverityOf(finding) = <<"H","I","G","H">>)
  => /\ ~classification.is_false_positive
     /\ RLt(classification.confidence, Rat(1, 2))

\* the text of the first resource contains a test-like or dev-like keyword
HasTestOrDevKeyword(f) ==
  /\ HasResource(f)
  /\ LET r == FirstResource(f)
         text == Lower(Get(r, "Id", <<>>) \o <<" ">> \o Join(Values(Get(r, "Tags", <<>>)), <<" ">>))
     IN \E kw \in {<<"t","e","s","t">>, <<"d","e","v">>, <<"s","t","a","g","i","n","g">>, <<"q","a">>, <<"s","a","n","d","b","o","x">>, <<"d","e","m","o">>,
                   <<"d","e","v","e","l","o","p","m","e","n","t">>, <<"f","e","a","t","u","r","e">>, <<"b","r","a","n","c","h">>} : Contains(text, kw)

\* C4: a finding whose first resource's identifier or tag values contain a
\* test-like or dev-like keyword is, with all options enabled, a false
\* positive with confidence above 0.7 whose reasoning contains
\* "non-production environment".
C4_TestOrDevIsFalsePositive ==
  (pc = "done" /\ AllOn(options) /\ HasTestOrDevKeyword(finding))
  => /\ classification.is_false_positive
     /\ RGt(classification.confidence, Rat(7, 10))
     /\ Contains(classification.reasoning, <<"n","o","n","-","p","r","o","d","u","c","t","i","o","n"," ","e","n","v","i","r","o","n","m","e","n","t">>)

\* the exception key of the finding is an entry of the registry
KeyInRegistry(f) ==
  \E i \in 1..Len(load_business_exceptions) :
     load_business_exceptions[i] = generate_finding_key(f)

\* C5: a finding whose exception key is in the exception registry has, with
\* all options enabled, business_context.has_business_exception = true and
\* overall confidence above 0.7.
C5_RegisteredExceptionIsConfident ==
  (pc = "done" /\ AllOn(options) /\ KeyInRegistry(finding))
  => /\ result["business_context"].has_business_exception
     /\ RGt(result["classification"].confidence, Rat(7, 10))

OptionField ==
  [include_ml_classification |-> "ml_classification",
   include_pattern_analysis |-> "pattern_analysis",
   include_business_context |-> "business_context",
   include_temporal_analysis |-> "temporal_analysis"]

OptionModel ==
  [include_ml_classification |-> "ml_classifier",
   include_pattern_analysis |-> "pattern_recognizer",
   include_business_context |-> "business_analyzer",
   include_temporal_analysis |-> "temporal_analyzer"]

InSeq(x, s) == \E i \in 1..Len(s) : s[i] = x

\* C6: for each of the four options, when the option is false the response
\* field is null and the analyzer's name is not in models_used; when the
\* option is absent the field and the name are present, as when it is true.
C6_OptionsSelectFieldsAndModels ==
  pc = "done" =>
    \A k \in OptionKeys :
      LET off == k \in DOMAIN options /\ ~options[k]
          models == result["processing_metadata"].models_used
      IN /\ off => (result[OptionField[k]] = None /\ ~InSeq(OptionModel[k], models))
         /\ ~off => (result[OptionField[k]] # None /\ InSeq(OptionModel[k], models))

C6_Witness ==
  /\ pc = "done"
  /\ options = [include_ml_classification |-> FALSE]
  /\ result["ml_classification"] = None
  /\ result["pattern_analysis"] # None
  /\ result["processing_metadata"].models_used =
       <<"environment_analyzer", "pattern_recognizer", "business_analyzer", "temporal_analyzer">>

\* C7 as stated: with all four options false the disposition has confidence
\* exactly 0.5 and action REVIEW, for every finding.
C7_AllDisabledIsNeutral ==
  (pc = "done" /\ options = AllDisabled)
  => /\ classification.confidence = Rat(1, 2)
     /\ classification.recommended_action = "REVIEW"

\* C7 amended: with all four options false analyze_finding returns a
\* disposition whose four optional fields are null and whose confidence is
\* the environment score alone: 0.9 with DOWNGRADE for a test or development
\* environment, 0.1 with REVIEW for production, 0.5 with REVIEW for unknown.
C7_AllDisabledIsEnvironmentScore ==
  (options = AllDisabled /\ pc \in {"return", "done"})
  => LET e == environment_analysis.environment
         c == classification.confidence
         a == classification.recommended_action
     IN /\ ml_classification = None /\ pattern_analysis = None
        /\ business_context = None /\ temporal_analysis = None
        /\ e \in {"test", "development"} => (c = Rat(9, 10) /\ a = "DOWNGRADE")
        /\ e = "production" => (c = Rat(1, 10) /\ a = "REVIEW")
        /\ e = "unknown" => (c = Rat(1, 2) /\ a = "REVIEW")
        /\ e \in {"test", "development", "production", "unknown"}
        /\ pc = "done" => result["classification"] = classification

C7_Witness ==
  /\ pc = "done"
  /\ options = AllDisabled
  /\ environment_analysis.environment = "test"
  /\ result["classification"].confidence = Rat(9, 10)
  /\ result["classification"].recommended_action = "DOWNGRADE"

\* C8: the engine retains nothing between invocations: whatever it analysed
\* before, the same finding with the same options gets the same
\* classification, the first request being served by a fresh instance.
C8_SameRequestSameClassification ==
  \A i, j \in 1..Len(history) :
    (history[i].finding = history[j].finding /\ history[i].options = history[j].options)
    => history[i].classification = history[j].classification

C8_Witness ==
  /\ Len(history) >= 2
  /\ history[1].finding = history[2].finding
  /\ history[1].options = history[2].options
  /\ history[1].options = AllEnabled

\* C9: a request without a finding is rejected by lambda_handler: status
\* 500, a body holding only the error message, no analyzer invoked, no
\* classification and no disposition.
C9_MissingFindingRejected ==
  (pc = "responded" /\ "finding" \notin DOMAIN lambda_event)
  => /\ response.statusCode = 500
     /\ DOMAIN response.body = {"error"}
     /\ response.body.error = <<"N","o"," ","f","i","n","d","i","n","g"," ","p","r","o","v","i","d","e","d"," ","i","n"," ","e","v","e","n","t">>
     /\ invoked = <<>>
     /\ classification = None
     /\ result = None

C9_Witness ==
  /\ pc = "responded"
  /\ lambda_event = [analysis_options |-> EmptyDict]
  /\ response.statusCode = 500

\* C10: a request with a well-formed, non-empty finding gets status 200 and
\* a body holding the completed disposition.
C10_WellFormedFindingSucceeds ==
  (/\ pc = "responded"
   /\ "finding" \in DOMAIN lambda_event
   /\ DOMAIN lambda_event["finding"] # {})
  => /\ response.statusCode = 200
     /\ {"classification", "environment_analysis", "processing_metadata"}
          \subseteq DOMAIN response.body

\* arn:aws:iam::<12 digits>:root
IsRootArn(id) ==
  LET prefix == <<"a","r","n",":","a","w","s",":","i","a","m",":",":">>
      suffix == <<":","r","o","o","t">>
  IN /\ Len(id) = Len(prefix) + 12 + Len(suffix)
     /\ SubSeq(id, 1, Len(prefix)) = prefix
     /\ \A i \in (Len(prefix) + 1)..(Len(prefix) + 12) :
          id[i] \in {"0", "1", "2", "3", "4", "5", "6", "7", "8", "9"}
     /\ SubSeq(id, Len(prefix) + 13, Len(id)) = suffix

\* C11: a finding whose first resource is an account's IAM root ARN has
\* business_context.is_critical_resource true and is not a false positive.
C11_RootArnIsCritical ==
  (/\ pc = "done"
   /\ business_context # None
   /\ HasResource(finding)
   /\ IsRootArn(Get(FirstResource(finding), "Id", <<>>)))
  => /\ business_context.is_critical_resource
     /\ ~classification.is_false_positive

\* the text detect_environment reads contains a keyword of some set
AllKeywords ==
  {<<"t","e","s","t">>, <<"d","e","v">>, <<"s","t","a","g","i","n","g">>, <<"q","a">>, <<"s","a","n","d","b","o","x">>, <<"d","e","m","o">>, <<"p","r","o","d">>,
   <<"p","r","o","d","u","c","t","i","o","n">>, <<"l","i","v","e">>, <<"m","a","i","n">>, <<"d","e","v","e","l","o","p","m","e","n","t">>, <<"f","e","a","t","u","r","e">>, <<"b","r","a","n","c","h">>}

EnvironmentText(f) ==
  LET r == FirstResource(f)
  IN Lower(Get(r, "Id", <<>>) \o <<" ">> \o Join(Values(Get(r, "Tags", <<>>)), <<" ">>))

NoKeyword(f) ==
  HasResource(f) /\ \A kw \in AllKeywords : ~Contains(EnvironmentText(f), kw)

\* the first resource's identifier contains a critical-resource pattern with
\* its wildcards removed
IsCritical(f) ==
  \E p \in {<<"a","r","n",":","a","w","s",":","i","a","m",":",":",":","r","o","o","t">>, <<"a","r","n",":","a","w","s",":","s","3",":",":",":","p","r","o","d","u","c","t","i","o","n","-","d","a","t","a","-">>,
            <<"a","r","n",":","a","w","s",":","r","d","s",":",":",":","d","b",":","p","r","o","d","u","c","t","i","o","n","-">>} :
     Contains(Get(FirstResource(f), "Id", <<>>), p)

\* C12 as stated: a finding whose first resource's identifier and tag values
\* contain no environment keyword has environment unknown and a final
\* confidence strictly between 0.4 and 0.6, for every severity and options.
C12_NoKeywordIsMedium ==
  (pc = "done" /\ NoKeyword(finding))
  => /\ environment_analysis.environment = "unknown"
     /\ RLt(Rat(2, 5), classification.confidence)
     /\ RLt(classification.confidence, Rat(3, 5))

\* C12 amended: the same, for a finding whose first resource is moreover not
\* a critical resource.
C12_NoKeywordNotCriticalIsMedium ==
  (pc = "done" /\ NoKeyword(finding) /\ ~IsCritical(finding))
  => /\ environment_analysis.environment = "unknown"
     /\ RLt(Rat(2, 5), classification.confidence)
     /\ RLt(classification.confidence, Rat(3, 5))

C12_Witness ==
  /\ pc = "done"
  /\ NoKeyword(finding) /\ ~IsCritical(finding)
  /\ SeverityOf(finding) = <<"C","R","I","T","I","C","A","L">>
  /\ ml_classification # None /\ business_context # None
  /\ environment_analysis.environment = "unknown"
  /\ classification.confidence # Rat(1, 2)

\* the option that enables an analyzer
OptionOf ==
  [ml_classifier |-> "include_ml_classification",
   pattern_recognizer |-> "include_pattern_analysis",
   business_analyzer |-> "include_business_context",
   temporal_analyzer |-> "include_temporal_analysis"]

\* the score an analyzer that ran contributed to the mean
Contribution(name) ==
  CASE name = "ml_classifier" ->
         IF ml_classification = None THEN None
         ELSE [score |-> ml_classification.confidence]
    [] name = "pattern_recognizer" -> [score |-> pattern_analysis.pattern_confidence]
    [] name = "business_analyzer" -> [score |-> calculate_business_score(business_context)]
    [] name = "temporal_analyzer" -> [score |-> calculate_temporal_score(temporal_analysis)]

\* C13: when one enabled analyzer fails internally the failure does not leave
\* analyze_finding: the call returns a complete disposition in which that
\* analyzer contributed the neutral score 0.5.
C13_AnalyzerFailureIsAbsorbed ==
  (fault \in Faults /\ options # None /\ Get(options, OptionOf[fault], TRUE))
  => /\ pc # "raised"
     /\ pc = "done" => /\ result # None
                       /\ Contribution(fault) = [score |-> Rat(1, 2)]

\* C14: a disposition is returned only after every enabled analyzer and the
\* combiner have run; a call that raised or was cancelled returns nothing,
\* neither a classification nor a context object.
C14_NoPartialResult ==
  /\ result # None =>
       /\ pc = "done"
       /\ classification # None
       /\ result.classification = classification
       /\ invoked = get_models_used(options)
       /\ \A name \in DOMAIN OptionOf :
            Get(options, OptionOf[name], TRUE) => InSeq(name, invoked)
  /\ pc \in {"raised", "cancelled"} => result = None /\ response = None

C14_Witness ==
  /\ pc = "raised"
  /\ fault = "business_analyzer"
  /\ environment_analysis # None /\ pattern_analysis # None
  /\ result = None

\* what lines 524-551 compute for a finding and options when each analysis
\* is applied to the finding alone
AnalysesOf(f, o) ==
  [environment_analysis |->
     analyze_environment_context(FalsePositiveAnalysisLambda_init.environment_analyzer, f),
   ml_classification |->
     IF Get(o, "include_ml_classification", TRUE) THEN classify_finding(f) ELSE None,
   pattern_analysis |->
     IF Get(o, "include_pattern_analysis", TRUE) THEN analyze_historical_patterns(f) ELSE None,
   business_context |->
     IF Get(o, "include_business_context", TRUE)
     THEN analyze_business_context(FalsePositiveAnalysisLambda_init.business_analyzer, f)
     ELSE None,
   temporal_analysis |->
     IF Get(o, "include_temporal_analysis", TRUE) THEN analyze_temporal_context(f) ELSE None]

\* C15: whatever the order in which the five analyses ran, the disposition
\* returned for a finding and options is the one obtained by applying each
\* analysis to the finding alone, and the combiner has run only when no
\* analysis is outstanding.
C15_AnyOrderSameDisposition ==
  /\ pc = "done" =>
       LET a == AnalysesOf(finding, options)
       IN /\ \A k \in DOMAIN a : result[k] = a[k]
          /\ result.classification =
               combine_analysis_results(a.environment_analysis, a.ml_classification,
                                        a.pattern_analysis, a.business_context,
                                        a.temporal_analysis)
          /\ result.processing_metadata.models_used = get_models_used(options)
  /\ classification # None =>
       /\ pending = {}
       /\ Len(invoked) = 1 + Cardinality({k \in OptionKeys : Get(options, k, TRUE)})

\* the business analysis ran first and the classifier last, on the finding
\* with a registered exception
C15_Witness ==
  /\ pc = "done"
  /\ Len(invoked) = 5
  /\ invoked[1] = "business_analyzer"
  /\ invoked[5] = "ml_classifier"
  /\ business_context.has_business_exception

\* C16: no step of a request changes the finding it was given, and after any
\* sequence of requests the environment keyword sets, the critical-resource
\* patterns, the exception list and the temporal patterns are those of
\* construction time.
C16_InputAndTablesUnchanged ==
  [][/\ (finding # None /\ pc' # "idle") => finding' = finding
     /\ analyzer'.environment_analyzer.environment_patterns =
          EnvironmentAnalyzer_init.environment_patterns
     /\ analyzer'.business_analyzer.critical_resources = load_critical_resources
     /\ analyzer'.business_analyzer.business_exceptions = load_business_exceptions
     /\ analyzer'.temporal_analyzer.temporal_patterns = load_temporal_patterns]_vars

\* the second request on one instance has returned, after a business context
\* analysis that looked up a key not in the exception list
C16_Witness ==
  /\ pc = "done"
  /\ Len(history) = 2
  /\ business_context # None /\ ~business_context.has_business_exception
  /\ history[1].finding # finding
  /\ analyzer = FalsePositiveAnalysisLambda_init

\* the score of each analysis that produced a result, None for the others
ScoreSlots ==
  << IF environment_analysis = None THEN None
     ELSE [score |-> IF environment_analysis.environment \in {"test", "development", "staging"}
                     THEN Rat(9, 10)
                     ELSE IF environment_analysis.environment = "production"
                          THEN Rat(1, 10) ELSE Rat(1, 2)],
     IF ml_classification = None THEN None
     ELSE [score |-> ml_classification.confidence],
     IF pattern_analysis = None THEN None
     ELSE [score |-> pattern_analysis.pattern_confidence],
     IF business_context = None THEN None
     ELSE [score |-> IF business_context.has_business_exception THEN Rat(4, 5)
                     ELSE IF business_context.is_critical_resource THEN Rat(1, 5)
                          ELSE Rat(1, 2)],
     IF temporal_analysis = None THEN None
     ELSE [score |-> IF temporal_analysis.is_temporary THEN Rat(4, 5)
                     ELSE IF temporal_analysis.in_maintenance_window THEN Rat(7, 10)
                          ELSE Rat(1, 2)] >>

PresentScores == {i \in 1..5 : ScoreSlots[i] # None}

RECURSIVE SumOver(_)
SumOver(S) ==
  IF S = {} THEN Zero
  ELSE LET i == CHOOSE j \in S : TRUE IN RAdd(ScoreSlots[i].score, SumOver(S \ {i}))

\* C17: the final confidence times the number of analyses that produced a
\* result is the sum of their scores, and is_false_positive is true exactly
\* when that mean is above 0.7.
C17_ConfidenceIsMeanOfPresent ==
  (classification # None /\ PresentScores # {}) =>
    LET n == Cardinality(PresentScores)
        total == SumOver(PresentScores)
    IN /\ RMul(classification.confidence, Rat(n, 1)) = total
       /\ classification.is_false_positive <=> (10 * total.num > 7 * n * total.den)

\* three analyses produced a result and their mean 2.2 / 3 is above 0.7
C17_Witness ==
  /\ pc = "return"
  /\ Cardinality(PresentScores) = 3
  /\ ml_classification = None /\ temporal_analysis = None
  /\ classification.confidence = Rat(11, 15)
  /\ classification.is_false_positive

\* the explanation of each present analysis whose threshold fired, None for
\* the others, in the order environment, classifier, pattern, business,
\* temporal
ExplanationSlots ==
  << IF ScoreSlots[1] # None /\ 5 * ScoreSlots[1].score.num > 4 * ScoreSlots[1].score.den
     THEN [text |-> <<"F","i","n","d","i","n","g"," ","i","s"," ","i","n"," ","n","o","n","-","p","r","o","d","u","c","t","i","o","n"," ","e","n","v","i","r","o","n","m","e","n","t">>] ELSE None,
     IF ml_classification # None
        /\ 10 * ml_classification.confidence.num > 7 * ml_classification.confidence.den
     THEN [text |-> ml_classification.reasoning] ELSE None,
     IF pattern_analysis # None
        /\ 5 * pattern_analysis.pattern_confidence.num
             > 4 * pattern_analysis.pattern_confidence.den
     THEN [text |-> pattern_analysis.pattern_reasoning] ELSE None,
     IF business_context # None /\ business_context.has_business_exception
     THEN [text |-> <<"F","i","n","d","i","n","g"," ","m","a","t","c","h","e","s"," ","k","n","o","w","n"," ","b","u","s","i","n","e","s","s"," ","e","x","c","e","p","t","i","o","n">>] ELSE None,
     IF temporal_analysis # None /\ temporal_analysis.is_temporary
     THEN [text |-> <<"F","i","n","d","i","n","g"," ","a","p","p","e","a","r","s"," ","t","o"," ","b","e"," ","t","e","m","p","o","r","a","r","y">>] ELSE None >>

Fired == {i \in 1..5 : ExplanationSlots[i] # None}

\* the fired explanations from slot i on, each followed by "; " unless it is
\* the last one
RECURSIVE JoinedFrom(_)
JoinedFrom(i) ==
  IF i > 5 THEN <<>>
  ELSE IF i \notin Fired THEN JoinedFrom(i + 1)
  ELSE ExplanationSlots[i].text
       \o (IF \E j \in Fired : j > i THEN <<";", " ">> ELSE <<>>)
       \o JoinedFrom(i + 1)

\* C18: reasoning is the "; "-joined list, in the order environment,
\* classifier, pattern, business, temporal, of the explanations of the
\* present analyses whose threshold fired, and it is the literal "No specific
\* indicators" if and only if none fired.
C18_ReasoningIsFiredExplanations ==
  classification # None =>
    /\ Fired # {} => classification.reasoning = JoinedFrom(1)
    /\ (classification.reasoning = <<"N","o"," ","s","p","e","c","i","f","i","c"," ","i","n","d","i","c","a","t","o","r","s">>) <=> (Fired = {})

\* all five thresholds fired, the classifier's with the explanation it gave
\* for a finding
C18_Witness ==
  /\ pc = "return"
  /\ Fired = 1..5
  /\ ml_classification \in { classify_finding(f) : f \in RepeatFindings }
  /\ Len(classification.reasoning) > Len(JoinedFrom(5)) + Len(JoinedFrom(4))

TestLike == {<<"t","e","s","t">>, <<"d","e","v">>, <<"s","t","a","g","i","n","g">>, <<"q","a">>, <<"s","a","n","d","b","o","x">>, <<"d","e","m","o">>}
ProductionLike == {<<"p","r","o","d">>, <<"p","r","o","d","u","c","t","i","o","n">>, <<"l","i","v","e">>, <<"m","a","i","n">>}
DevelopmentLike == {<<"d","e","v">>, <<"d","e","v","e","l","o","p","m","e","n","t">>, <<"f","e","a","t","u","r","e">>, <<"b","r","a","n","c","h">>}

HasAny(text, keywords) == \E kw \in keywords : Contains(text, kw)

RiskTable ==
  [production |-> "HIGH", staging |-> "MEDIUM", test |-> "LOW",
   development |-> "LOW", unknown |-> "MEDIUM"]

\* C20: the environment analysis always returns a context; for a finding
\* without the key Resources or with an empty list it is the neutral one
\* (unknown, MEDIUM, not production, no immediate action); in every context
\* is_production and requires_immediate_action are both (environment =
\* production) and risk_level is the table's entry for the environment.
C20_EnvironmentContextIsTotal ==
  /\ pc \in {"ml", "pattern", "business", "temporal", "combine", "return", "done"}
       => environment_analysis # None
  /\ (environment_analysis # None /\ finding # None /\ ~HasResource(finding)) =>
       environment_analysis =
         [environment |-> "unknown", risk_level |-> "MEDIUM",
          is_production |-> FALSE, requires_immediate_action |-> FALSE]
  /\ environment_analysis # None =>
       /\ environment_analysis.environment \in DOMAIN RiskTable
       /\ environment_analysis.is_production
            = (environment_analysis.environment = "production")
       /\ environment_analysis.requires_immediate_action
            = (environment_analysis.environment = "production")
       /\ environment_analysis.risk_level = RiskTable[environment_analysis.environment]
  /\ \A e \in DOMAIN RiskTable : assess_environment_risk(e) = RiskTable[e]

\* the finding without the key Resources has been analysed
C20_Witness ==
  /\ pc = "done"
  /\ "Resources" \notin DOMAIN finding
  /\ environment_analysis.environment = "unknown"
  /\ environment_analysis.risk_level = "MEDIUM"

C22_BusinessImpactByPriority ==
  business_context # None =>
    /\ HasResource(finding) =>
         LET b == business_context
             high == SeverityOf(finding) \in {<<"H","I","G","H">>, <<"C","R","I","T","I","C","A","L">>}
         IN /\ b.is_critical_resource => b.business_impact = "HIGH"
            /\ (~b.is_critical_resource /\ b.has_business_exception)
                 => b.business_impact = "LOW"
            /\ (~b.is_critical_resource /\ ~b.has_business_exception /\ high)
                 => b.business_impact = "MEDIUM"
            /\ (~b.is_critical_resource /\ ~b.has_business_exception /\ ~high)
                 => b.business_impact = "LOW"
            /\ b.requires_business_review
                 = (b.is_critical_resource \/ b.has_business_exception)
    /\ ("Resources" \in DOMAIN finding /\ Len(finding["Resources"]) = 0) =>
         business_context =
           [is_critical_resource |-> FALSE, has_business_exception |-> FALSE,
            business_impact |-> "UNKNOWN", requires_business_review |-> FALSE]

\* a critical resource with a registered exception has been analysed
C22_Witness ==
  /\ pc = "done"
  /\ business_context # None
  /\ business_context.is_critical_resource
  /\ business_context.has_business_exception
  /\ business_context.business_impact = "HIGH"

\* C23: for every combination of is_temporary, recurrence_pattern and
\* in_maintenance_window, temporal_risk_level is LOW when is_temporary,
\* otherwise MEDIUM when in the maintenance window, otherwise MEDIUM when the
\* recurrence pattern is not NONE, otherwise HIGH; it is always one of LOW,
\* MEDIUM, HIGH.
C23_TemporalRiskByPriority ==
  temporal_analysis # None =>
    LET t == temporal_analysis
    IN /\ t.temporal_risk_level \in {"LOW", "MEDIUM", "HIGH"}
       /\ t.is_temporary => t.temporal_risk_level = "LOW"
       /\ (~t.is_temporary /\ t.in_maintenance_window) => t.temporal_risk_level = "MEDIUM"
       /\ (~t.is_temporary /\ ~t.in_maintenance_window /\ t.recurrence_pattern # "NONE")
            => t.temporal_risk_level = "MEDIUM"
       /\ (~t.is_temporary /\ ~t.in_maintenance_window /\ t.recurrence_pattern = "NONE")
            => t.temporal_risk_level = "HIGH"
       /\ (args # None /\ args.fn = "analyze_temporal_context") =>
            /\ t.is_temporary = args.is_temporary
            /\ t.recurrence_pattern = args.recurrence_pattern
            /\ t.in_maintenance_window = args.in_maintenance_window

\* a temporary finding in a maintenance window with a recurrence is LOW
C23_Witness ==
  /\ pc = "combine"
  /\ temporal_analysis # None
  /\ temporal_analysis.is_temporary /\ temporal_analysis.in_maintenance_window
  /\ temporal_analysis.recurrence_pattern = "DAILY"
  /\ temporal_analysis.temporal_risk_level = "LOW"

\* the number of similar findings of the call and of the suppressed ones
HistorySize == Len(args.similar_findings)

SuppressedCount ==
  Cardinality({i \in 1..HistorySize :
                 /\ "WorkflowState" \in DOMAIN args.similar_findings[i]
                 /\ args.similar_findings[i]["WorkflowState"] = "SUPPRESSED"})

PatternCall ==
  pattern_analysis # None /\ args # None /\ args.fn = "analyze_historical_patterns"

\* C24: for n similar findings of which k are SUPPRESSED, false_positive_rate
\* is k / n, or 0.5 when n = 0; pattern_confidence is the rate when n > 10,
\* 0.8 times the rate when 5 < n <= 10 and 0.5 when n <= 5;
\* similar_findings_count is n.
C24_PatternRateAndConfidence ==
  PatternCall =>
    LET n == HistorySize
        k == SuppressedCount
        rate == pattern_analysis.false_positive_rate
        conf == pattern_analysis.pattern_confidence
    IN /\ pattern_analysis.similar_findings_count = n
       /\ n = 0 => rate = Rat(1, 2)
       /\ n > 0 => rate.num * n = k * rate.den
       /\ n > 10 => conf = rate
       /\ (5 < n /\ n <= 10) => 5 * n * conf.num = 4 * k * conf.den
       /\ n <= 5 => conf = Rat(1, 2)

\* six similar findings, all suppressed: rate 1, confidence 0.8
C24_Witness ==
  /\ PatternCall
  /\ HistorySize = 6 /\ SuppressedCount = 6
  /\ pattern_analysis.false_positive_rate = Rat(1, 1)
  /\ pattern_analysis.pattern_confidence = Rat(4, 5)

\* 0.30 * environment + 0.25 * historical + 0.20 * business + 0.15 * temporal
\* + 0.10 * severity mismatch
WeightedSum(v) ==
  RAdd(RAdd(RAdd(RAdd(RMul(Rat(30, 100), v[1]), RMul(Rat(25, 100), v[2])),
                 RMul(Rat(20, 100), v[3])),
            RMul(Rat(15, 100), v[4])),
       RMul(Rat(10, 100), v[5]))

Clamped(x) == IF RLt(x, Zero) THEN Zero ELSE IF RGt(x, One) THEN One ELSE x

\* C25: for a vector of five features in [0,1] the classifier's confidence is
\* the weighted sum with the weights 0.30, 0.25, 0.20, 0.15, 0.10 clamped to
\* [0,1], and is_false_positive is true exactly when it is above 0.7.
C25_ClassifierIsWeightedSum ==
  (ml_classification # None /\ args # None /\ args.fn = "classify_finding") =>
    /\ \A i \in 1..5 : InUnit(args.features[i])
    /\ ml_classification.confidence = Clamped(WeightedSum(args.features))
    /\ ml_classification.is_false_positive
         <=> (10 * ml_classification.confidence.num > 7 * ml_classification.confidence.den)

\* the features (1, 1, 0.5, 1, 0) give 0.8, a false positive
C25_Witness ==
  /\ pc = "combine"
  /\ args # None /\ args.fn = "classify_finding"
  /\ args.features = <<Rat(1, 1), Rat(1, 1), Rat(1, 2), Rat(1, 1), Rat(0, 1)>>
  /\ ml_classification.confidence = Rat(4, 5)
  /\ ml_classification.is_false_positive

C27_SuppressUnreachable ==
  /\ \A i \in PresentScores : RLe(ScoreSlots[i].score, Rat(9, 10))
  /\ classification # None =>
       /\ RLe(classification.confidence, Rat(9, 10))
       /\ classification.recommended_action \in {"DOWNGRADE", "REVIEW"}
  /\ result # None => result.classification.recommended_action # "SUPPRESS"

\* the largest confidence, 0.9 of the environment score alone, is DOWNGRADE
C27_Witness ==
  /\ pc = "done"
  /\ classification.confidence = Rat(9, 10)
  /\ result.classification.recommended_action = "DOWNGRADE"
  /\ pattern_analysis = None

\* the four options are present and false
NoneOn(opts) == \A k \in OptionKeys : ~Get(opts, k, TRUE)

\* C28: in every request that completes, environment_analysis is not null,
\* environment_analyzer is the first of models_used and the environment score
\* is among the averaged scores; with the four options false the final
\* confidence is the environment score, one of 0.9, 0.1 and 0.5.
C28_EnvironmentAlwaysAnalysed ==
  /\ pc \in {"combine", "return", "done"} =>
       /\ environment_analysis # None
       /\ 1 \in PresentScores
       /\ invoked[1] = "environment_analyzer"
  /\ pc = "done" =>
       /\ result.environment_analysis # None
       /\ result.processing_metadata.models_used[1] = "environment_analyzer"
       /\ NoneOn(options) =>
            /\ PresentScores = {1}
            /\ result.classification.confidence = ScoreSlots[1].score
            /\ result.classification.confidence \in {Rat(9, 10), Rat(1, 10), Rat(1, 2)}

\* a production resource analysed with the four options false: 0.1
C28_Witness ==
  /\ pc = "done"
  /\ NoneOn(options)
  /\ environment_analysis.environment = "production"
  /\ result.classification.confidence = Rat(1, 10)
  /\ result.processing_metadata.models_used = <<"environment_analyzer">>

\* C29: the detected environment is one of test, production, development and
\* unknown, never staging; a text containing "staging" or "dev" is test; and
\* development is detected only for a text that contains "feature" or
\* "branch" and no test-like or production-like keyword.
C29_StagingNeverDetected ==
  environment_analysis # None =>
    LET env == environment_analysis.environment
    IN /\ env \in {"test", "production", "development", "unknown"}
       /\ env # "staging"
       /\ HasResource(finding) =>
            LET text == EnvironmentText(finding)
            IN /\ HasAny(text, {<<"s","t","a","g","i","n","g">>, <<"d","e","v">>}) => env = "test"
               /\ env = "development" =>
                    /\ HasAny(text, {<<"f","e","a","t","u","r","e">>, <<"b","r","a","n","c","h">>})
                    /\ ~HasAny(text, TestLike)
                    /\ ~HasAny(text, ProductionLike)

\* a resource tagged Environment=staging has been analysed as test
C29_Witness ==
  /\ pc = "done"
  /\ HasResource(finding)
  /\ HasAny(EnvironmentText(finding), {<<"s","t","a","g","i","n","g">>})
  /\ ~HasAny(EnvironmentText(finding), {<<"t","e","s","t">>})
  /\ environment_analysis.environment = "test"
  /\ environment_analysis.risk_level = "LOW"

\* C30: for a history of at most 10 similar findings pattern_confidence is at
\* most 0.8 and the pattern explanation does not enter the final reasoning;
\* for a history of more than 5, pattern_confidence is at most the
\* false_positive_rate.
C30_PatternNeedsMoreThanTen ==
  PatternCall =>
    /\ HistorySize <= 10 =>
         /\ RLe(pattern_analysis.pattern_confidence, Rat(4, 5))
         /\ classification # None =>
              /\ ~Contains(classification.reasoning, pattern_analysis.pattern_reasoning)
              /\ classification.reasoning = <<"N","o"," ","s","p","e","c","i","f","i","c"," ","i","n","d","i","c","a","t","o","r","s">>
    /\ HistorySize > 5 =>
         RLe(pattern_analysis.pattern_confidence, pattern_analysis.false_positive_rate)

\* ten similar findings, all suppressed: confidence 0.8, and the combiner has
\* not taken the pattern explanation
C30_Witness ==
  /\ PatternCall
  /\ pc = "return"
  /\ HistorySize = 10 /\ SuppressedCount = 10
  /\ pattern_analysis.pattern_confidence = Rat(4, 5)
  /\ classification.reasoning = <<"N","o"," ","s","p","e","c","i","f","i","c"," ","i","n","d","i","c","a","t","o","r","s">>

====
